---- MODULE Spec2Model ----
(***************************************************************************)
(* A model of the Agent Skills Registry: the slug normalizer, the local    *)
(* JSON registry (RegistryService), the SKILL.md codec (SkillRenderer /    *)
(* DiscoveryClient.parse_skill_md) and the remote discovery client.        *)
(*                                                                         *)
(* Text is a sequence of characters.  A character is a one-element string   *)
(* such as " ", ":", "-", or an atom: a run of letters and digits that      *)
(* holds no white space, quote, colon, hyphen or line feed ("name", "v1"). *)
(***************************************************************************)
EXTENDS Integers, Sequences, FiniteSets, TLC

VARIABLES
    store,      \* registry: the content of data/skills.json, a list of records
    nextId,     \* registry: the next value uuid.uuid4() hands out
    clock,      \* registry: the last value datetime.utcnow() handed out
    last,       \* registry: the last call, its argument, the store before it, its result
    calls,      \* registry: the number of calls made so far
    doc,        \* codec: the document text under parse
    skillIn,    \* codec: the skill handed to render_skill_md
    parsed,     \* codec: [kind, metadata, body, level2] of the last parse / level 2 call
    remote,     \* discovery: what the origin serves (document, index entry)
    call,       \* discovery: the running client call and its position
    tasks,      \* discovery: the fetch_one tasks of the running fetch_all_resources
    result,     \* discovery: the value the finished call returned
    trusted,    \* service: DiscoveryService._trusted_origins
    cache,      \* service: DiscoveryService._discovered_skills
    svc,        \* service: the running or last call, its tasks and what it returned
    norm,       \* normalizer: a name, its slug and the slug of the slug
    proj,       \* projector: a skill or an origin's index, and the projection made of it
    collection, \* search: the ids held by the vector index
    answer,     \* search: the last search, what the index ranked and what was returned
    disk,       \* storage: the bytes of data/skills.json as a reader would find them
    io          \* storage: the writer's and the reader's position and what the reader got

regVars == <<store, nextId, clock, last, calls>>
codecVars == <<doc, skillIn, parsed>>
discVars == <<remote, call, tasks, result>>
svcVars == <<trusted, cache, svc>>
pureVars == <<norm, proj>>
searchVars == <<collection, answer>>
fileVars == <<disk, io>>
moreVars == <<svcVars, pureVars, searchVars, fileVars>>
vars == <<store, nextId, clock, last, calls, doc, skillIn, parsed, remote, call, tasks, result,
          trusted, cache, svc, norm, proj, collection, answer, disk, io>>

-----------------------------------------------------------------------------
(* Bounds of the model.                                                     *)

MaxCalls == 4      \* registry calls in one run

-----------------------------------------------------------------------------
(* Values and small helpers.                                                *)

Absent == "<absent>"          \* a key a dict does not hold / Python None, as a character
AbsentText == <<Absent>>      \* ... where the value would be text or a list
AbsentNum == -1               \* ... where the value would be an id or a timestamp
EmptyTime == -2               \* the empty string "" in the place of a timestamp

RECURSIVE SeqToSet(_)
SeqToSet(s) == IF s = <<>> THEN {} ELSE {Head(s)} \cup SeqToSet(Tail(s))

Last(s) == s[Len(s)]
Front(s) == SubSeq(s, 1, Len(s) - 1)

RECURSIVE Join(_, _)
\* sep.join(lines)
Join(lines, sep) ==
    IF lines = <<>> THEN <<>>
    ELSE IF Len(lines) = 1 THEN lines[1]
    ELSE lines[1] \o <<sep>> \o Join(Tail(lines), sep)

RECURSIVE Split(_, _)
\* text.split(sep): the pieces between the occurrences of sep, at least one piece
Split(text, sep) ==
    IF \A i \in 1..Len(text) : text[i] # sep THEN <<text>>
    ELSE LET i == CHOOSE k \in 1..Len(text) :
                      text[k] = sep /\ \A j \in 1..(k - 1) : text[j] # sep
         IN  <<SubSeq(text, 1, i - 1)>> \o Split(SubSeq(text, i + 1, Len(text)), sep)

RECURSIVE Spaces(_)
Spaces(n) == IF n = 0 THEN <<>> ELSE <<" ">> \o Spaces(n - 1)

RECURSIVE Flatten(_)
\* the concatenation of a list of lists
Flatten(ss) == IF ss = <<>> THEN <<>> ELSE Head(ss) \o Flatten(Tail(ss))

-----------------------------------------------------------------------------
(* schemas/models.py: the slug normalizer and validator.                    *)

SlugLimit == 64

LowerAlnum == {"a", "b", "c", "1", "2", "name", "description", "tags", "v1", "v2"}
UpperToLower == [c \in {"A", "B"} |-> IF c = "A" THEN "a" ELSE "b"]
WhiteSpace == {" ", "\n", "\t"}

\* str.lower() of one character
LowerChar(c) == IF c \in DOMAIN UpperToLower THEN UpperToLower[c] ELSE c

RECURSIVE MapLower(_)
MapLower(s) == IF s = <<>> THEN <<>> ELSE <<LowerChar(Head(s))>> \o MapLower(Tail(s))

RECURSIVE CollapseRuns(_, _, _)
\* re.sub(r'[cls]+', rep, s): every maximal run of characters of cls becomes rep
CollapseRuns(s, cls, rep) ==
    IF s = <<>> THEN <<>>
    ELSE IF Head(s) \in cls
         THEN IF Len(s) > 1 /\ s[2] \in cls
              THEN CollapseRuns(Tail(s), cls, rep)
              ELSE <<rep>> \o CollapseRuns(Tail(s), cls, rep)
         ELSE <<Head(s)>> \o CollapseRuns(Tail(s), cls, rep)

RECURSIVE KeepOnly(_, _)
\* re.sub(r'[^cls]', '', s)
KeepOnly(s, cls) ==
    IF s = <<>> THEN <<>>
    ELSE (IF Head(s) \in cls THEN <<Head(s)>> ELSE <<>>) \o KeepOnly(Tail(s), cls)

RECURSIVE LStrip(_, _)
LStrip(s, cls) == IF s # <<>> /\ Head(s) \in cls THEN LStrip(Tail(s), cls) ELSE s

RECURSIVE RStrip(_, _)
RStrip(s, cls) == IF s # <<>> /\ Last(s) \in cls THEN RStrip(Front(s), cls) ELSE s

\* a strip of the leading characters only
StripLeading(s, cls) == LStrip(s, cls)

\* str.strip(chars)
Strip(s, cls) == RStrip(LStrip(s, cls), cls)

\* s[:n]
Prefix(s, n) == IF Len(s) > n THEN SubSeq(s, 1, n) ELSE s

\* a truncation that leaves the hyphen the cut may end in
TruncateKeepingHyphen(slug) == Prefix(slug, SlugLimit)

\* if len(slug) > 64: slug = slug[:64].rstrip('-')
Truncate(slug) ==
    IF Len(slug) > SlugLimit THEN RStrip(Prefix(slug, SlugLimit), {"-"}) ELSE slug

\* lower, [\s_]+ to "-", drop what is not [a-z0-9-], -+ to "-", strip "-", truncate
normalize_skill_name(name) ==
    Truncate(Strip(CollapseRuns(KeepOnly(CollapseRuns(MapLower(name),
                                                      WhiteSpace \cup {"_"}, "-"),
                                         LowerAlnum \cup {"-"}),
                                {"-"}, "-"),
                   {"-"}))

\* SKILL_NAME_PATTERN.match(name): ^[a-z0-9](?:[a-z0-9-]{0,62}[a-z0-9])?$ ; Python's $
\* also matches before one trailing line feed
SKILL_NAME_PATTERN(name) ==
    LET core == IF name # <<>> /\ Last(name) = "\n" THEN Front(name) ELSE name
        full(s) == /\ s # <<>>
                   /\ Head(s) \in LowerAlnum
                   /\ Len(s) > 1 =>
                        /\ Last(s) \in LowerAlnum
                        /\ Len(s) - 2 <= SlugLimit - 2
                        /\ \A i \in 2..(Len(s) - 1) : s[i] \in LowerAlnum \cup {"-"}
    IN  full(name) \/ full(core)

\* TRUE where validate_skill_name returns, FALSE where it raises ValueError
validate_skill_name(name) ==
    /\ name # <<>>
    /\ Len(name) <= SlugLimit
    /\ SKILL_NAME_PATTERN(name)

-----------------------------------------------------------------------------
(* schemas/models.py: the Skill object.                                     *)

SKILL_MD == "SKILL.md"

\* Skill(**data): an id or timestamp the data does not hold takes its default factory's
\* value, an empty slug is derived from the name; callers here never pass files
Skill(name, description, id, slug, created_at, updated_at, uuid, now) ==
    [ id          |-> IF id = AbsentNum THEN uuid ELSE id,
      name        |-> name,
      description |-> description,
      slug        |-> IF slug = <<>> THEN normalize_skill_name(name) ELSE slug,
      created_at  |-> IF created_at = AbsentNum THEN now ELSE created_at,
      updated_at  |-> IF updated_at = AbsentNum THEN now ELSE updated_at,
      files       |-> <<SKILL_MD>> ]

-----------------------------------------------------------------------------
(* services/registry.py: RegistryService over the list held in skills.json. *)

\* dict.get(key, default) on a record whose missing id or timestamp holds AbsentNum
Get(item, key, default) == IF item[key] = AbsentNum THEN default ELSE item[key]

\* a missing or empty slug is derived from the name, missing files become SKILL.md, a
\* missing updated_at becomes created_at (or ""); each back-fill reads fields no other
\* back-fill writes
_ensure_skill_fields(skill_data) ==
    [skill_data EXCEPT
        !.slug = IF @ = AbsentText \/ @ = <<>>
                 THEN normalize_skill_name(IF skill_data.name = AbsentText THEN <<>>
                                           ELSE skill_data.name)
                 ELSE @,
        !.files = IF @ = AbsentText THEN <<SKILL_MD>> ELSE @,
        !.updated_at = IF @ = AbsentNum THEN Get(skill_data, "created_at", EmptyTime)
                       ELSE @]

\* the first index of a loop that breaks at its first hit, 0 where it never breaks
FirstIndex(hits) == IF hits = {} THEN 0 ELSE CHOOSE i \in hits : \A j \in hits : i <= j

\* a lookup that compares the stored name, not the stored slug, with the slug
ExistingIndexByName(skills_data, slug) ==
    FirstIndex({i \in 1..Len(skills_data) : skills_data[i].name = slug})

\* the index register_skill's loop stops at, 0 for None
ExistingIndex(skills_data, slug) ==
    FirstIndex({i \in 1..Len(skills_data) :
                   _ensure_skill_fields(skills_data[i]).slug = slug})

\* the items the loop looked at, back-filled in place: all of them where it never broke
BackFilled(skills_data, e) ==
    [i \in 1..Len(skills_data) |->
        IF e = 0 \/ i <= e THEN _ensure_skill_fields(skills_data[i]) ELSE skills_data[i]]

\* skills_data after the loop of register_skill
ScannedData(skills_data, slug) ==
    BackFilled(skills_data, ExistingIndex(skills_data, slug))

\* skill_dict["id"] / ["created_at"] = skills_data[existing_index].get(..., skill's own)
CarryForward(existing, skill) ==
    [skill EXCEPT !.id = Get(existing, "id", skill.id),
                  !.created_at = Get(existing, "created_at", skill.created_at)]

DictAt(data, e, skill) == IF e # 0 THEN CarryForward(data[e], skill) ELSE skill

\* an upsert that forgets to carry the stored id and created_at forward
RegisterDictNoCarry(skills_data, skill) == skill

\* skill_dict as register_skill saves and returns it
RegisterDict(skills_data, skill) ==
    DictAt(ScannedData(skills_data, skill.slug), ExistingIndex(skills_data, skill.slug),
           skill)

\* a save that appends even where the slug is already stored
SaveAtAppending(data, e, skill_dict) == Append(data, skill_dict)

\* replace at existing_index, or append
SaveAt(data, e, skill_dict) ==
    IF e # 0 THEN [data EXCEPT ![e] = skill_dict] ELSE Append(data, skill_dict)

\* the list register_skill hands to _save
RegisterData(skills_data, skill) ==
    SaveAt(ScannedData(skills_data, skill.slug), ExistingIndex(skills_data, skill.slug),
           RegisterDict(skills_data, skill))

\* a delete that keeps only the records before the first one with the id
DeleteDataDroppingRest(skills_data, skill_id) ==
    IF FirstIndex({i \in 1..Len(skills_data) : skills_data[i].id = skill_id}) = 0
    THEN skills_data
    ELSE SubSeq(skills_data, 1,
                FirstIndex({i \in 1..Len(skills_data) : skills_data[i].id = skill_id}) - 1)

\* [s for s in skills_data if s.get("id") != skill_id]
DeleteData(skills_data, skill_id) ==
    SelectSeq(skills_data, LAMBDA s : s.id # skill_id)

\* [s for s in skills_data if self._ensure_skill_fields(s).get("slug") != slug];
\* the items kept are the back-filled ones
DeleteBySlugData(skills_data, slug) ==
    LET data == [i \in 1..Len(skills_data) |-> _ensure_skill_fields(skills_data[i])]
    IN  SelectSeq(data, LAMBDA s : s.slug # slug)

\* the index add_skill_file's loop stops at, 0 when no item has the id
FileTargetIndex(skills_data, skill_id) ==
    FirstIndex({i \in 1..Len(skills_data) : skills_data[i].id = skill_id})

AddFileItem(item, path) ==
    LET files == IF item.files = AbsentText THEN <<>> ELSE item.files
    IN  [item EXCEPT !.files = IF path \in SeqToSet(files) THEN files ELSE Append(files, path)]

AddFileData(skills_data, skill_id, path) ==
    LET i == FileTargetIndex(skills_data, skill_id)
    IN  IF i = 0 THEN skills_data
        ELSE [skills_data EXCEPT ![i] = AddFileItem(skills_data[i], path)]

-----------------------------------------------------------------------------
(* The registry as a state machine: one action per public method.           *)

\* the (name, slug) pairs callers build a Skill from; an empty slug asks for the derived one
NameSlugInputs ==
    { << <<"A", " ">>, <<>> >>, << <<"@">>, <<>> >>, << <<"a">>, <<"-">> >> }
Descriptions == {"v1", "v2"}
FilePaths == {"x.py"}

NoSkill == [id |-> AbsentNum, name |-> AbsentText, description |-> Absent,
            slug |-> AbsentText, created_at |-> AbsentNum, updated_at |-> AbsentNum,
            files |-> AbsentText]
NoCall == [op |-> "none", skill |-> NoSkill, key |-> AbsentText, pre |-> <<>>,
           ret |-> NoSkill, found |-> FALSE]

\* the parts of the system a specification leaves out stay as constructed
RegistryIdle == store = <<>> /\ nextId = 1 /\ clock = 0 /\ last = NoCall /\ calls = 0
CodecIdle == doc = <<>> /\ skillIn = <<>> /\ parsed = <<>>
DiscoveryIdle == remote = <<>> /\ call = <<>> /\ tasks = <<>> /\ result = <<>>
ServiceIdle == trusted = <<>> /\ cache = <<>> /\ svc = <<>>
PureIdle == norm = <<>> /\ proj = <<>>
SearchIdle == collection = <<>> /\ answer = <<>>
FileIdle == disk = <<>> /\ io = <<>>
MoreIdle == ServiceIdle /\ PureIdle /\ SearchIdle /\ FileIdle

RegInit ==
    /\ store = <<>>
    /\ nextId = 1
    /\ clock = 0
    /\ last = NoCall
    /\ calls = 0
    /\ CodecIdle
    /\ DiscoveryIdle
    /\ MoreIdle

\* register_skill(skill) for a Skill the caller builds with the default factories
\* (a fresh uuid, the current time) or one that carries its own id and timestamps
\* every registry call counts against MaxCalls and leaves the other components alone
RegStep ==
    /\ calls < MaxCalls
    /\ calls' = calls + 1
    /\ UNCHANGED <<codecVars, discVars, moreVars>>

DoRegister(skill) ==
    /\ RegStep
    /\ store' = RegisterData(store, skill)
    /\ last' = [NoCall EXCEPT !.op = "register", !.skill = skill, !.pre = store,
                                !.ret = RegisterDict(store, skill), !.found = TRUE]

RegisterFresh ==
    \E ns \in NameSlugInputs, d \in Descriptions :
        /\ DoRegister(Skill(ns[1], d, AbsentNum, ns[2], AbsentNum, AbsentNum,
                            nextId, clock + 1))
        /\ nextId' = nextId + 1
        /\ clock' = clock + 1

RegisterCarried ==
    \E ns \in NameSlugInputs, d \in Descriptions, i \in 1..Len(store) :
        /\ DoRegister(Skill(ns[1], d, store[i].id, ns[2], store[i].created_at,
                            store[i].updated_at, nextId, clock))
        /\ UNCHANGED <<nextId, clock>>

Delete ==
    \E skill_id \in 0..nextId :
        LET data == DeleteData(store, skill_id)
            found == Len(data) < Len(store)
        IN  /\ RegStep
            /\ store' = IF found THEN data ELSE store
            /\ last' = [NoCall EXCEPT !.op = "delete", !.skill.id = skill_id,
                                        !.pre = store, !.found = found]
            /\ UNCHANGED <<nextId, clock>>

DeleteBySlug ==
    \E ns \in NameSlugInputs :
        LET slug == IF ns[2] = <<>> THEN normalize_skill_name(ns[1]) ELSE ns[2]
            data == DeleteBySlugData(store, slug)
            found == Len(data) < Len(store)
        IN  /\ RegStep
            /\ store' = IF found THEN data ELSE store
            /\ last' = [NoCall EXCEPT !.op = "delete_by_slug", !.key = slug,
                                        !.pre = store, !.found = found]
            /\ UNCHANGED <<nextId, clock>>

AddSkillFile ==
    \E skill_id \in 0..nextId, path \in FilePaths :
        LET i == FileTargetIndex(store, skill_id)
            data == AddFileData(store, skill_id, path)
        IN  /\ RegStep
            /\ store' = data
            /\ last' = [NoCall EXCEPT !.op = "add_skill_file", !.skill.id = skill_id,
                                        !.key = <<path>>, !.pre = store, !.found = (i # 0),
                                        !.ret = IF i = 0 THEN NoSkill
                                                ELSE _ensure_skill_fields(data[i])]
            /\ UNCHANGED <<nextId, clock>>

RegNext ==
    \/ RegisterFresh
    \/ RegisterCarried
    \/ Delete
    \/ DeleteBySlug
    \/ AddSkillFile

RegSpec == RegInit /\ [][RegNext]_vars

-----------------------------------------------------------------------------
(* services/skill_renderer.py: render_skill_md and _dict_to_yaml.           *)
(* A dict is a list of nodes [key, kind, text, items]: kind "str", "bool"    *)
(* or "num" holds its value in text, kind "dict" its entries in items, kind  *)
(* "list" its elements (nodes of kind "str" or "dict") in items.            *)

Node(key, kind, text, items) == [key |-> key, kind |-> kind, text |-> text, items |-> items]
Str(key, text) == Node(key, "str", text, <<>>)
Dict(key, items) == Node(key, "dict", <<>>, items)
List(key, items) == Node(key, "list", <<>>, items)

Backtick == "<backtick>"              \* the grave accent, which a string cannot hold here
FenceJson == <<Backtick, Backtick, Backtick, "json">>
Fence == <<Backtick, Backtick, Backtick>>

YamlSpecial == {":", "#", "{", "}", "[", "]", ",", "&", "*", "?", "|", "-", "<", ">",
                "=", "!", "%", "@", Backtick}
HasAny(text, cls) == \E i \in 1..Len(text) : text[i] \in cls

RECURSIVE _dict_to_yaml(_, _)
_dict_to_yaml(d, indent) ==
    IF d = <<>> THEN <<>>
    ELSE
      LET e == Head(d)
          prefix == Spaces(indent)
          item(x) == IF x.kind = "dict"
                     THEN <<prefix \o <<" ", " ", "-">>>> \o _dict_to_yaml(x.items, indent + 4)
                     ELSE <<prefix \o <<" ", " ", "-", " ">> \o x.text>>
          lines ==
            IF e.kind = "dict"
            THEN <<prefix \o e.key \o <<":">>>> \o _dict_to_yaml(e.items, indent + 2)
            ELSE IF e.kind = "list"
            THEN <<prefix \o e.key \o <<":">>>>
                 \o Flatten([i \in 1..Len(e.items) |-> item(e.items[i])])
            ELSE IF e.kind = "str" /\ HasAny(e.text, YamlSpecial)
            THEN <<prefix \o e.key \o <<":", " ", "\"">> \o e.text \o <<"\"">>>>
            ELSE <<prefix \o e.key \o <<":", " ">> \o e.text>>
      IN  lines \o _dict_to_yaml(Tail(d), indent)

RECURSIVE JsonDumps(_, _)
\* json.dumps(d, indent=2), line by line: one line per scalar entry, nested values
\* between their brackets
JsonDumps(d, indent) ==
    LET prefix == Spaces(indent)
        q(t) == <<"\"">> \o t \o <<"\"">>
        comma(i, n) == IF i < n THEN <<",">> ELSE <<>>
        value(x, i, n, head) ==
            IF x.kind = "dict" /\ x.items # <<>>
            THEN <<head \o <<"{">>>> \o JsonDumps(x.items, indent + 2)
                 \o <<prefix \o <<" ", " ", "}">> \o comma(i, n)>>
            ELSE IF x.kind = "dict" THEN <<head \o <<"{", "}">> \o comma(i, n)>>
            ELSE IF x.kind = "list" /\ x.items # <<>>
            THEN <<head \o <<"[">>>>
                 \o [k \in 1..Len(x.items) |->
                        prefix \o Spaces(4) \o q(x.items[k].text) \o comma(k, Len(x.items))]
                 \o <<prefix \o <<" ", " ", "]">> \o comma(i, n)>>
            ELSE IF x.kind = "list" THEN <<head \o <<"[", "]">> \o comma(i, n)>>
            ELSE IF x.kind = "str" THEN <<head \o q(x.text) \o comma(i, n)>>
            ELSE <<head \o x.text \o comma(i, n)>>
    IN  Flatten([i \in 1..Len(d) |->
            value(d[i], i, Len(d), prefix \o <<" ", " ">> \o q(d[i].key) \o <<":", " ">>)])

\* json.dumps of a whole dict, as one text
JsonBlock(d) ==
    IF d = <<>> THEN <<"{", "}">>
    ELSE Join(<< <<"{">> >> \o JsonDumps(d, 0) \o << <<"}">> >>, "\n")

DELIM == <<"-", "-", "-">>

\* the front-matter lines of render_skill_md, delimiters included
YamlLines(skill) ==
    << DELIM,
       <<"name", ":", " ">> \o skill.slug,
       <<"description", ":", " ", "\"">> \o skill.description \o <<"\"">>,
       <<"version", ":", " ">> \o skill.version >>
    \o (IF skill.author # AbsentText /\ skill.author # <<>>
        THEN << <<"author", ":", " ">> \o skill.author >> ELSE <<>>)
    \o (IF skill.tags # <<>>
        THEN << <<"tags", ":">> >>
             \o [i \in 1..Len(skill.tags) |-> <<" ", " ", "-", " ">> \o skill.tags[i]]
        ELSE <<>>)
    \o (IF skill.input_schema # <<>>
        THEN << <<"input_schema", ":">> >> \o _dict_to_yaml(skill.input_schema, 2)
        ELSE <<>>)
    \o (IF skill.output_schema # <<>>
        THEN << <<"output_schema", ":">> >> \o _dict_to_yaml(skill.output_schema, 2)
        ELSE <<>>)
    \o << DELIM, <<>> >>

\* one example of the "Examples" section; example.keys are the keys the example holds
ExampleLines(example, i) ==
    << <<"#", "#", "#", " ", "Example", " ", i>>, <<>> >>
    \o (IF "description" \in example.keys THEN <<example.description, <<>>>> ELSE <<>>)
    \o (IF "input" \in example.keys
        THEN << <<"**Input:**">>, FenceJson, JsonBlock(example.input), Fence, <<>> >>
        ELSE <<>>)
    \o (IF "output" \in example.keys
        THEN << <<"**Output:**">>, FenceJson, JsonBlock(example.output), Fence, <<>> >>
        ELSE <<>>)

RECURSIVE TagList(_)
\* the tags, each between grave accents, joined by ", "
TagList(tags) ==
    IF tags = <<>> THEN <<>>
    ELSE <<Backtick>> \o Head(tags) \o <<Backtick>>
         \o (IF Len(tags) > 1 THEN <<",", " ">> ELSE <<>>) \o TagList(Tail(tags))

\* the Markdown lines of render_skill_md
MdLines(skill) ==
    << <<"#", " ">> \o skill.name, <<>>, skill.description, <<>> >>
    \o (IF skill.documentation # AbsentText /\ skill.documentation # <<>>
        THEN << <<"#", "#", " ", "Documentation">>, <<>>, skill.documentation, <<>> >>
        ELSE <<>>)
    \o << <<"#", "#", " ", "Input", " ", "Schema">>, <<>>, FenceJson,
          JsonBlock(skill.input_schema), Fence, <<>> >>
    \o (IF skill.output_schema # <<>>
        THEN << <<"#", "#", " ", "Output", " ", "Schema">>, <<>>, FenceJson,
                JsonBlock(skill.output_schema), Fence, <<>> >>
        ELSE <<>>)
    \o (IF skill.examples # <<>>
        THEN << <<"#", "#", " ", "Examples">>, <<>> >>
             \o Flatten([i \in 1..Len(skill.examples) |->
                            ExampleLines(skill.examples[i], ToString(i))])
        ELSE <<>>)
    \o (IF skill.tags # <<>>
        THEN << <<"#", "#", " ", "Tags">>, <<>>, TagList(skill.tags), <<>> >>
        ELSE <<>>)

render_skill_md(skill) == Join(YamlLines(skill) \o MdLines(skill), "\n")

-----------------------------------------------------------------------------
(* services/discovery.py: DiscoveryClient.parse_skill_md.                   *)
(* The metadata dict is a function from keys (texts) to values              *)
(* [kind |-> "str", text] or [kind |-> "list", items].                      *)

NoMetadata == <<>>
StrValue(text) == [kind |-> "str", text |-> text, items |-> <<>>]
ListValue(items) == [kind |-> "list", text |-> <<>>, items |-> items]
Put(metadata, key, value) == (key :> value) @@ metadata
Has(metadata, key) == key \in DOMAIN metadata

\* line.strip()
StripWs(line) == Strip(line, WhiteSpace)

IsDelimiter(line) == StripWs(line) = DELIM

\* what str.partition(":") splits at: the first colon of a line that holds one
ColonAt(line) == CHOOSE k \in 1..Len(line) : line[k] = ":" /\ \A j \in 1..(k - 1) : line[j] # ":"

RECURSIVE ParseFrontmatter(_, _, _)
\* the loop over frontmatter_lines; current_key is AbsentText where current_list is None
ParseFrontmatter(lines, metadata, current_key) ==
    IF lines = <<>> THEN metadata
    ELSE
      LET stripped == StripWs(Head(lines))
          rest == Tail(lines)
      IN  IF stripped = <<>> THEN ParseFrontmatter(rest, metadata, current_key)
          ELSE IF Len(stripped) >= 2 /\ stripped[1] = "-" /\ stripped[2] = " "
          THEN IF current_key # AbsentText
               THEN ParseFrontmatter(rest,
                        Put(metadata, current_key,
                            ListValue(Append(metadata[current_key].items,
                                             StripWs(SubSeq(stripped, 3, Len(stripped)))))),
                        current_key)
               ELSE ParseFrontmatter(rest, metadata, current_key)
          ELSE IF HasAny(stripped, {":"})
          THEN LET k == ColonAt(stripped)
                   key == StripWs(SubSeq(stripped, 1, k - 1))
                   value == StripWs(SubSeq(stripped, k + 1, Len(stripped)))
               IN  IF value # <<>>
                   THEN ParseFrontmatter(rest,
                            Put(metadata, key, StrValue(Strip(value, {"\"", "'"}))),
                            AbsentText)
                   ELSE ParseFrontmatter(rest, Put(metadata, key, ListValue(<<>>)), key)
          ELSE ParseFrontmatter(rest, metadata, current_key)

\* the index of the closing delimiter line, 0 for None
EndIndex(lines) ==
    LET hits == {i \in 2..Len(lines) : IsDelimiter(lines[i])}
    IN  IF hits = {} THEN 0 ELSE CHOOSE i \in hits : \A j \in hits : i <= j

\* a parser that reads an unterminated front-matter to the end of the text
parse_skill_md_unterminated(content) ==
    LET lines == Split(content, "\n")
        end_index == IF EndIndex(lines) = 0 THEN Len(lines) + 1 ELSE EndIndex(lines)
    IN  IF ~IsDelimiter(lines[1]) THEN [metadata |-> NoMetadata, body |-> content]
        ELSE [metadata |-> ParseFrontmatter(SubSeq(lines, 2, end_index - 1),
                                            NoMetadata, AbsentText),
              body |-> StripWs(Join(SubSeq(lines, end_index + 1, Len(lines)), "\n"))]

parse_skill_md(content) ==
    LET lines == Split(content, "\n")
        end_index == EndIndex(lines)
    IN  IF ~IsDelimiter(lines[1]) THEN [metadata |-> NoMetadata, body |-> content]
        ELSE IF end_index = 0 THEN [metadata |-> NoMetadata, body |-> content]
        ELSE [metadata |-> ParseFrontmatter(SubSeq(lines, 2, end_index - 1),
                                            NoMetadata, AbsentText),
              body |-> StripWs(Join(SubSeq(lines, end_index + 1, Len(lines)), "\n"))]

-----------------------------------------------------------------------------
(* services/discovery.py: the Level 2 view built from a parsed document.    *)

\* metadata.get(key): the value, or a "none" value where the key is missing
MetaGet(metadata, key) ==
    IF Has(metadata, key) THEN metadata[key]
    ELSE [kind |-> "none", text |-> <<>>, items |-> <<>>]

\* SkillLevel2(...) as get_skill_level2 builds it from a document; ok is FALSE where the
\* model's field types reject a value (pydantic raises ValidationError): name,
\* description and version must be strings, author a string or None, input_schema and
\* output_schema dicts (or None for output_schema), and the flat parser yields only
\* strings and lists
Level2FromDocument(content, skill_name) ==
    LET p == parse_skill_md(content)
        m == p.metadata
        name == MetaGet(m, <<"name">>)
        description == MetaGet(m, <<"description">>)
        version == MetaGet(m, <<"version">>)
        author == MetaGet(m, <<"author">>)
        tags == MetaGet(m, <<"tags">>)
    IN  [ ok |-> /\ name.kind \in {"none", "str"}
                 /\ description.kind \in {"none", "str"}
                 /\ version.kind \in {"none", "str"}
                 /\ author.kind \in {"none", "str"}
                 /\ ~Has(m, <<"input_schema">>)
                 /\ ~Has(m, <<"output_schema">>),
          name |-> IF name.kind = "none" THEN skill_name ELSE name.text,
          description |-> IF description.kind = "none" THEN <<>> ELSE description.text,
          version |-> IF version.kind = "none" THEN <<"1.0.0">> ELSE version.text,
          author |-> IF author.kind = "none" THEN AbsentText ELSE author.text,
          tags |-> IF tags.kind = "list" THEN tags.items ELSE <<>>,
          documentation |-> IF p.body = <<>> THEN AbsentText ELSE p.body ]

-----------------------------------------------------------------------------
(* The codec as a state machine: a document is rendered from a skill or     *)
(* arrives as text, and is then parsed or turned into a Level 2 view.       *)

MaxTags == 2        \* tags of a rendered skill
MaxDocLines == 3    \* lines of a document that arrives as text

RECURSIVE SeqsUpTo(_, _)
\* the sequences over S of length at most n
SeqsUpTo(S, n) ==
    IF n = 0 THEN {<<>>}
    ELSE LET shorter == SeqsUpTo(S, n - 1)
         IN  shorter \cup {Append(q, x) : q \in shorter, x \in S}

TagSamples == {<<"t1">>, <<"t2">>}
DescriptionSamples ==
    { <<"v1">>, <<"v1", " ", "v2">>, <<"\"", "v1", "\"">>, <<"v1", ":", "v2">> }
InputSchemaSamples ==
    { <<>>,
      << Str(<<"type">>, <<"object">>) >>,
      << Str(<<"type">>, <<"object">>),
         Dict(<<"properties">>,
              << Dict(<<"query">>, << Str(<<"type">>, <<"string">>),
                                      Str(<<"description">>, <<"v2">>) >>) >>),
         List(<<"required">>, << Str(<<>>, <<"query">>) >>) >>,
      << Str(<<"name">>, <<"b">>) >>,
      << List(<<"tags">>, << Str(<<>>, <<"t2">>) >>) >> }
OutputSchemaSamples == { <<>>, << Str(<<"type">>, <<"string">>) >> }
AuthorSamples == { AbsentText, <<"Test">> }
ExampleSamples ==
    { <<>>,
      << [keys |-> {"description", "input"}, description |-> <<"v1">>,
          input |-> << Str(<<"query">>, <<"v2">>) >>, output |-> <<>>] >> }

CodecSkills ==
    { [slug |-> <<"a">>, name |-> <<"A">>, description |-> d, version |-> <<"1.0.0">>,
       author |-> au, tags |-> t, input_schema |-> is, output_schema |-> os,
       documentation |-> AbsentText, examples |-> ex] :
        d \in DescriptionSamples, au \in AuthorSamples, t \in SeqsUpTo(TagSamples, MaxTags),
        is \in InputSchemaSamples, os \in OutputSchemaSamples, ex \in ExampleSamples }

LineSamples ==
    { DELIM, <<" ", "-", "-", "-", " ">>, <<"k", ":", " ", "\"", "v", "\"">>, <<"k", ":">>,
      <<"-", " ", "i">>, <<"x", " ">>, <<>>, <<"-", "-">> }

NoCodecSkill == [slug |-> AbsentText]
NotParsed == [kind |-> "none"]

CodecInit ==
    /\ doc = <<>>
    /\ skillIn = NoCodecSkill
    /\ parsed = NotParsed
    /\ RegistryIdle
    /\ DiscoveryIdle
    /\ MoreIdle

\* a run of the codec handles one document
NoDocument == doc = <<>> /\ skillIn = NoCodecSkill /\ parsed = NotParsed

\* render_skill_md(skill) produces the document
Render ==
    \E skill \in CodecSkills :
        /\ NoDocument
        /\ doc' = render_skill_md(skill)
        /\ skillIn' = skill
        /\ parsed' = NotParsed
        /\ UNCHANGED <<regVars, discVars, moreVars>>

\* a document arrives as text (the body of a response)
Receive ==
    \E lines \in SeqsUpTo(LineSamples, MaxDocLines) :
        /\ NoDocument
        /\ lines # <<>>
        /\ doc' = Join(lines, "\n")
        /\ skillIn' = NoCodecSkill
        /\ parsed' = NotParsed
        /\ UNCHANGED <<regVars, discVars, moreVars>>

\* parse_skill_md(doc)
Parse ==
    /\ parsed = NotParsed
    /\ parsed' = [kind |-> "parse", value |-> parse_skill_md(doc)]
    /\ UNCHANGED <<doc, skillIn, regVars, discVars, moreVars>>

\* get_skill_level2 from the point where fetch_skill_md has returned doc
GetLevel2 ==
    /\ parsed = NotParsed
    /\ parsed' = [kind |-> "level2", value |-> Level2FromDocument(doc, <<"a">>)]
    /\ UNCHANGED <<doc, skillIn, regVars, discVars, moreVars>>

CodecNext ==
    \/ Render
    \/ Receive
    \/ Parse
    \/ GetLevel2

CodecSpec == CodecInit /\ [][CodecNext]_vars

-----------------------------------------------------------------------------
(* services/discovery.py: DiscoveryClient against one origin.               *)
(* remote.index is the "skills" list of the origin's index.json, each entry *)
(* [name, files] with files = AbsentText where the entry has no "files"     *)
(* key; remote.doc is the text served as the skill's SKILL.md.              *)

MaxFiles == 2       \* paths in a file list (a caller's, or one an index entry declares)

ResourcePaths == {SKILL_MD, "extra.json"}

\* response.text of a resource that was fetched
ContentOf(path) == <<"content", ":", path>>

\* the RemoteSkillInfo list discover builds: an entry without "files" declares SKILL.md
DiscoverSkills(index) ==
    [i \in 1..Len(index) |->
        [name |-> index[i].name,
         files |-> IF index[i].files = AbsentText THEN <<SKILL_MD>> ELSE index[i].files]]

\* a file list that stays empty where the skill is not listed
Level3FilesNoDefault(skills, skill_name) ==
    IF {i \in 1..Len(skills) : skills[i].name = skill_name} = {} THEN <<>>
    ELSE skills[FirstIndex({i \in 1..Len(skills) : skills[i].name = skill_name})].files

\* get_skill_level3 without a files argument: the files of the first skill of the fresh
\* discovery that carries the name, and ["SKILL.md"] where that leaves None or []
Level3Files(skills, skill_name) ==
    LET hits == {i \in 1..Len(skills) : skills[i].name = skill_name}
        found == IF hits = {} THEN <<>>
                 ELSE skills[CHOOSE i \in hits : \A j \in hits : i <= j].files
    IN  IF found = <<>> THEN <<SKILL_MD>> ELSE found

\* a batch in which one failed fetch_one fails the whole gather
GatherResultFailFast(files, done) ==
    IF \E i \in 1..Len(files) : done[i] = "fail"
    THEN [status |-> "error", resources |-> <<>>]
    ELSE [status |-> "ok",
          resources |-> [p \in SeqToSet(files) |-> ContentOf(p)]]

\* fetch_all_resources once every fetch_one has returned (path, content) or (path, None):
\* the dict of the pairs whose content is not None
GatherResult(files, done) ==
    [status |-> "ok",
     resources |-> [p \in {files[i] : i \in {k \in 1..Len(files) : done[k] = "ok"}} |->
                        ContentOf(p)]]

-----------------------------------------------------------------------------
(* The discovery client as a state machine: one call at a time, every       *)
(* outbound fetch a suspension point that ends in a response or a failure.  *)

MinimalSkill ==
    [slug |-> <<"a">>, name |-> <<"A">>, description |-> <<"v1">>, version |-> <<"1.0.0">>,
     author |-> AbsentText, tags |-> <<>>, input_schema |-> <<>>, output_schema |-> <<>>,
     documentation |-> AbsentText, examples |-> <<>>]
SchemaSkill == [MinimalSkill EXCEPT !.input_schema = << Str(<<"type">>, <<"object">>) >>]

DocumentSamples == {render_skill_md(MinimalSkill), render_skill_md(SchemaSkill), <<"plain">>}
FileLists == SeqsUpTo(ResourcePaths, MaxFiles)
IndexSamples ==
    {other \o mine :
        other \in {<<>>, << [name |-> <<"b">>, files |-> <<"b.md">>] >>},
        mine \in {<<>>} \cup {<< [name |-> <<"a">>, files |-> f] >> :
                                 f \in FileLists \cup {AbsentText}}}

Idle == [op |-> "none", pc |-> "idle", skill_name |-> <<>>, files |-> <<>>]
NoResult == [status |-> "none", resources |-> <<>>]
Failed == [status |-> "error", resources |-> <<>>]

DiscInit ==
    /\ remote \in [doc : DocumentSamples, index : IndexSamples]
    /\ call = Idle
    /\ tasks = <<>>
    /\ result = NoResult
    /\ RegistryIdle
    /\ CodecIdle
    /\ MoreIdle

CanCall == call.pc \in {"idle", "done"}
Finish(value) ==
    /\ call' = [call EXCEPT !.pc = "done"]
    /\ result' = value

\* fetch_all_resources(origin, skill_name, files): one fetch_one task per path
CallFetchAllResources ==
    \E files \in FileLists :
        /\ CanCall
        /\ call' = [op |-> "fetch_all", pc |-> "resources", skill_name |-> <<"a">>,
                    files |-> files]
        /\ tasks' = [i \in 1..Len(files) |-> "pending"]
        /\ result' = NoResult
        /\ UNCHANGED <<remote, regVars, codecVars, moreVars>>

\* get_skill_level3(origin, skill_name) without files: starts with fetch_skill_md
CallGetLevel3 ==
    /\ CanCall
    /\ call' = [op |-> "level3", pc |-> "doc", skill_name |-> <<"a">>, files |-> <<>>]
    /\ tasks' = <<>>
    /\ result' = NoResult
    /\ UNCHANGED <<remote, regVars, codecVars, moreVars>>

\* fetch_skill_md returns the text; get_skill_level2 parses it and builds SkillLevel2,
\* which raises where the fields do not validate; then discover is awaited
DocumentReturns ==
    /\ call.pc = "doc"
    /\ IF Level2FromDocument(remote.doc, call.skill_name).ok
       THEN call' = [call EXCEPT !.pc = "index"] /\ UNCHANGED result
       ELSE Finish(Failed)
    /\ UNCHANGED <<remote, tasks, regVars, codecVars, moreVars>>

\* fetch_skill_md raises (network failure, timeout, non-success response)
DocumentFails ==
    /\ call.pc = "doc"
    /\ Finish(Failed)
    /\ UNCHANGED <<remote, tasks, regVars, codecVars, moreVars>>

\* discover returns the fresh index; the file list is chosen and the batch starts
DiscoverReturns ==
    /\ call.pc = "index"
    /\ LET files == Level3Files(DiscoverSkills(remote.index), call.skill_name)
       IN  /\ call' = [call EXCEPT !.pc = "resources", !.files = files]
           /\ tasks' = [i \in 1..Len(files) |-> "pending"]
    /\ UNCHANGED <<remote, result, regVars, codecVars, moreVars>>

\* discover raises
DiscoverFails ==
    /\ call.pc = "index"
    /\ Finish(Failed)
    /\ UNCHANGED <<remote, tasks, regVars, codecVars, moreVars>>

\* one fetch_one gets its response: (file_path, content)
FetchOneReturns ==
    \E i \in 1..Len(tasks) :
        /\ call.pc = "resources"
        /\ tasks[i] = "pending"
        /\ tasks' = [tasks EXCEPT ![i] = "ok"]
        /\ UNCHANGED <<remote, call, result, regVars, codecVars, moreVars>>

\* one fetch_one catches the failure of its fetch: (file_path, None)
FetchOneFails ==
    \E i \in 1..Len(tasks) :
        /\ call.pc = "resources"
        /\ tasks[i] = "pending"
        /\ tasks' = [tasks EXCEPT ![i] = "fail"]
        /\ UNCHANGED <<remote, call, result, regVars, codecVars, moreVars>>

\* asyncio.gather returns once no task is pending; the call returns the dict (inside a
\* SkillLevel3 for get_skill_level3)
Gather ==
    /\ call.pc = "resources"
    /\ \A i \in 1..Len(tasks) : tasks[i] # "pending"
    /\ Finish(GatherResult(call.files, tasks))
    /\ UNCHANGED <<remote, tasks, regVars, codecVars, moreVars>>

DiscNext ==
    \/ CallFetchAllResources
    \/ CallGetLevel3
    \/ DocumentReturns
    \/ DocumentFails
    \/ DiscoverReturns
    \/ DiscoverFails
    \/ FetchOneReturns
    \/ FetchOneFails
    \/ Gather

DiscSpec == DiscInit /\ [][DiscNext]_vars

-----------------------------------------------------------------------------
(* Claims about the registry, checked under RegSpec.                        *)

\* the positions of the store before the last call that hold the slug of the skill passed
PreSameSlug == {i \in 1..Len(last.pre) : last.pre[i].slug = last.skill.slug}
UpsertHappened == last.op = "register" /\ PreSameSlug # {}

\* C1: after any sequence of register, delete, delete_by_slug and add_skill_file calls
\* from the empty store, the slugs of the stored records are pairwise distinct.
C1_SlugsPairwiseDistinct ==
    \A i, j \in 1..Len(store) : i # j => store[i].slug # store[j].slug

\* C1 witness: two records are stored after a register, a delete or an add_skill_file
\* that came third or later.
C1_Witness ==
    /\ Len(store) >= 2
    /\ calls >= 3
    /\ last.op \in {"register", "delete", "delete_by_slug", "add_skill_file"}

\* C2: registering a skill whose slug is stored replaces the record's fields but keeps
\* the stored id and created_at; the returned and the stored record carry them, the
\* description is the new one and the number of records is unchanged.
C2_UpsertKeepsIdentity ==
    UpsertHappened =>
        \A i \in PreSameSlug :
            /\ Len(store) = Len(last.pre)
            /\ store[i] = last.ret
            /\ last.ret.id = last.pre[i].id
            /\ last.ret.created_at = last.pre[i].created_at
            /\ store[i].description = last.skill.description
            /\ store[i].name = last.skill.name
            /\ store[i].updated_at = last.skill.updated_at
            /\ store[i].files = last.skill.files

\* C2 witness: an upsert whose skill carried another id, created_at and description
\* than the stored record.
C2_Witness ==
    /\ UpsertHappened
    /\ \E i \in PreSameSlug :
        /\ last.skill.id # last.pre[i].id
        /\ last.skill.created_at # last.pre[i].created_at
        /\ last.skill.description # last.pre[i].description

\* C3: every register on a stored slug refreshes updated_at: the value stored after the
\* call differs from, and is not earlier than, the value stored before, for any Skill.
C3_UpdatedAtRefreshed ==
    UpsertHappened =>
        \A i \in PreSameSlug :
            /\ store[i].updated_at # last.pre[i].updated_at
            /\ store[i].updated_at >= last.pre[i].updated_at

\* C4: the ids of the stored records are pairwise distinct after any sequence of
\* register calls, for any Skill objects, and a record's id never changes.
C4_IdsDistinctAndFixed ==
    /\ \A i, j \in 1..Len(store) : i # j => store[i].id # store[j].id
    /\ UpsertHappened => \A i \in PreSameSlug : store[i].id = last.pre[i].id

\* C5: a register whose slug fails the slug grammar is rejected before any mutation, so
\* every stored slug satisfies the grammar.
C5_StoredSlugsValid ==
    \A i \in 1..Len(store) : validate_skill_name(store[i].slug)

-----------------------------------------------------------------------------
(* Claims about the codec, checked under CodecSpec.                         *)

Rendered == skillIn # NoCodecSkill
DocLines == Split(doc, "\n")
Unopened == ~IsDelimiter(DocLines[1])
Unclosed == \A i \in 2..Len(DocLines) : ~IsDelimiter(DocLines[i])

\* the description and the tags hold none of the special quoting characters and no
\* line feed, so no delimiter line
CleanSkill ==
    /\ ~HasAny(skillIn.description, YamlSpecial \cup {"\n"})
    /\ \A i \in 1..Len(skillIn.tags) : ~HasAny(skillIn.tags[i], YamlSpecial \cup {"\n"})

\* metadata.tags as plain strings; a document without tags has none
ParsedTags(metadata) ==
    IF ~Has(metadata, <<"tags">>) THEN <<>>
    ELSE IF metadata[<<"tags">>].kind = "list" THEN metadata[<<"tags">>].items
    ELSE <<metadata[<<"tags">>].text>>

\* C6: round trip: for every skill, with any input_schema and output_schema, whose
\* description and tags hold no special quoting character and no delimiter line,
\* parse(render(S)).metadata has name = S.slug, description = S.description and
\* tags = S.tags.
C6_RoundTrip ==
    (parsed.kind = "parse" /\ Rendered /\ CleanSkill) =>
        LET m == parsed.value.metadata
        IN  /\ MetaGet(m, <<"name">>) = StrValue(skillIn.slug)
            /\ MetaGet(m, <<"description">>) = StrValue(skillIn.description)
            /\ ParsedTags(m) = skillIn.tags

\* C7: parse never fails on malformed input: when the first line is not the delimiter
\* line, or no later delimiter line closes the front-matter, the metadata is empty and
\* the body is the entire input text.
C7_MalformedIsWholeBody ==
    (parsed.kind = "parse" /\ (Unopened \/ Unclosed)) =>
        /\ DOMAIN parsed.value.metadata = {}
        /\ parsed.value.body = doc

\* C7 witness: a parsed text that opens the front-matter, never closes it, and holds a
\* key line and surrounding white space that the degraded result must keep.
C7_Witness ==
    /\ parsed.kind = "parse"
    /\ ~Unopened
    /\ Unclosed
    /\ \E i \in 2..Len(DocLines) : HasAny(DocLines[i], {":"})
    /\ Last(doc) = " "

\* C8: once the document fetch has succeeded, get_level2 never fails, for any document
\* text including every document render produces: absent fields are defaulted and a
\* Level2 is returned.
C8_Level2NeverFails ==
    parsed.kind = "level2" =>
        LET m == parse_skill_md(doc).metadata
            v == parsed.value
        IN  /\ v.ok
            /\ ~Has(m, <<"name">>) => v.name = <<"a">>
            /\ ~Has(m, <<"description">>) => v.description = <<>>
            /\ ~Has(m, <<"version">>) => v.version = <<"1.0.0">>
            /\ ~Has(m, <<"tags">>) => v.tags = <<>>
            /\ ~Has(m, <<"author">>) => v.author = AbsentText

-----------------------------------------------------------------------------
(* Claims about the discovery client, checked under DiscSpec.               *)

\* a call whose fetch_all_resources has returned
BatchDone == call.pc = "done" /\ result.status # "none" /\ Len(tasks) = Len(call.files)
             /\ (call.op = "fetch_all" \/ result.status = "ok")
NPaths == Len(call.files)
MFailed == Cardinality({i \in 1..Len(tasks) : tasks[i] = "fail"})
PathsDistinct == \A i, j \in 1..Len(call.files) : i # j => call.files[i] # call.files[j]

\* N - M entries, one for each path whose fetch succeeded, mapped to its content
ExactlyTheSucceeded ==
    /\ result.status = "ok"
    /\ Cardinality(DOMAIN result.resources) = NPaths - MFailed
    /\ \A i \in 1..NPaths :
        /\ tasks[i] = "ok" =>
            /\ call.files[i] \in DOMAIN result.resources
            /\ result.resources[call.files[i]] = ContentOf(call.files[i])
        /\ tasks[i] = "fail" => call.files[i] \notin DOMAIN result.resources

\* C9 as stated: for any list of N resource paths of which M < N fail to fetch,
\* fetch_all_resources raises no error and returns exactly N - M entries, one for each
\* path whose fetch succeeded, mapped to its content.
C9_AnyPathList ==
    (call.op = "fetch_all" /\ BatchDone /\ MFailed < NPaths) => ExactlyTheSucceeded

\* C9 amended: for any list of N pairwise distinct resource paths of which M < N fail
\* to fetch, fetch_all_resources raises no error and returns exactly N - M entries, one
\* for each path whose fetch succeeded, mapped to its content.
C9_DistinctPathList ==
    (call.op = "fetch_all" /\ BatchDone /\ PathsDistinct /\ MFailed < NPaths) =>
        ExactlyTheSucceeded

\* C9 witness: a batch over two distinct paths of which one failed has returned.
C9_Witness ==
    /\ call.op = "fetch_all"
    /\ BatchDone
    /\ PathsDistinct
    /\ NPaths = 2
    /\ MFailed = 1

\* the entries of the origin's index that carry the requested name
Listed == {i \in 1..Len(remote.index) : remote.index[i].name = call.skill_name}
\* the file paths the index declares for the skill: those of its first entry, SKILL.md
\* for an entry that gives no files
DeclaredPaths ==
    LET e == remote.index[CHOOSE i \in Listed : \A j \in Listed : i <= j]
    IN  IF e.files = AbsentText THEN {SKILL_MD} ELSE SeqToSet(e.files)

\* C10: for get_level3 without a files argument the keys of the resources map are a
\* subset of the file paths the origin's index declares for the skill, for every
\* declared list including the empty one; a declared file whose fetch fails is absent
\* and the call still succeeds.
C10_KeysAreDeclared ==
    (call.op = "level3" /\ call.pc = "done" /\ Len(tasks) > 0 /\ Listed # {}) =>
        /\ result.status = "ok"
        /\ DOMAIN result.resources \subseteq DeclaredPaths
        /\ \A i \in 1..Len(tasks) :
            tasks[i] = "fail" /\ (\A j \in 1..Len(tasks) : call.files[j] = call.files[i]
                                                            => tasks[j] = "fail")
                => call.files[i] \notin DOMAIN result.resources

-----------------------------------------------------------------------------
(* services/discovery.py: the single-item client operations, check_origin   *)
(* and DiscoveryService (trusted origins, per-origin cache, fan-out).       *)
(* A response is what the origin answers to one GET: [status, kind, skills, *)
(* text]; kind says what response.json() would find in the body.            *)

Origins == {"o1", "o2"}

\* an index entry: name = AbsentText where the entry has no "name" key
Entry(name, description) == [name |-> name, description |-> description, files |-> <<SKILL_MD>>]
EntryLists ==
    { <<>>, << Entry(<<"a">>, <<"v1">>) >>, << Entry(<<"a">>, <<"v1">>), Entry(<<"b">>, AbsentText) >>,
      << Entry(AbsentText, <<"v1">>) >> }

Response(status, kind, skills) == [status |-> status, kind |-> kind, skills |-> skills,
                                   text |-> <<"plain">>]
\* no connection, no answer within the timeout, an answer raise_for_status rejects
FailedResponses == {Response(st, "none", <<>>) : st \in {"unreachable", "timeout", "http_error"}}
\* 2xx answers: a body that is no JSON, a JSON array, an object without "skills", with
\* "skills": null, with "skills": {} and with a "skills" list
OkResponses ==
    {Response("ok", k, <<>>) :
        k \in {"not_json", "not_object", "no_skills", "skills_null", "skills_empty_object"}}
    \cup {Response("ok", "skills_list", es) : es \in EntryLists}
Responses == FailedResponses \cup OkResponses

Raised == [outcome |-> "raised", value |-> <<>>]
Returned(value) == [outcome |-> "returned", value |-> value]

\* RemoteSkillInfo for each entry; a missing description is ""
RemoteSkillInfos(origin, entries) ==
    [i \in 1..Len(entries) |->
        [origin |-> origin, name |-> entries[i].name,
         description |-> IF entries[i].description = AbsentText THEN <<>>
                         ELSE entries[i].description,
         files |-> entries[i].files]]

\* DiscoveryClient.discover: the GET and raise_for_status, response.json(),
\* index_data.get("skills", []) and the loop over it that reads skill_entry["name"]
discover(origin, response) ==
    IF response.status # "ok" \/ response.kind \in {"not_json", "not_object", "skills_null"}
    THEN Raised
    ELSE IF \E i \in 1..Len(response.skills) : response.skills[i].name = AbsentText
    THEN Raised
    ELSE Returned([origin |-> origin, skills |-> RemoteSkillInfos(origin, response.skills)])

\* fetch_skill_md and fetch_skill_resource: the GET, raise_for_status, response.text
fetch_text(response) == IF response.status # "ok" THEN Raised ELSE Returned(response.text)

\* a probe without its try / except
check_origin_unguarded(origin, response) ==
    [outcome |-> discover(origin, response).outcome, value |-> TRUE]

\* check_origin: True after discover returned, False after it raised
check_origin(origin, response) ==
    Returned(discover(origin, response).outcome = "returned")

\* an add that appends without looking
add_trusted_origin_blind(origins, origin) == Append(origins, origin)

add_trusted_origin(origins, origin) ==
    IF origin \in SeqToSet(origins) THEN origins ELSE Append(origins, origin)

\* list.remove: the first occurrence goes
remove_trusted_origin(origins, origin) ==
    IF origin \notin SeqToSet(origins) THEN origins
    ELSE LET i == FirstIndex({k \in 1..Len(origins) : origins[k] = origin})
         IN  SubSeq(origins, 1, i - 1) \o SubSeq(origins, i + 1, Len(origins))

\* a gather whose first raising task fails the call
gather_results_fail_fast(done) ==
    IF \E i \in 1..Len(done) : done[i].outcome = "raised" THEN Raised
    ELSE Returned([i \in 1..Len(done) |-> done[i].value])

\* gather(return_exceptions=True) and the filter isinstance(r, DiscoveryResult)
gather_results(done) ==
    Returned([i \in 1..Len(SelectSeq(done, LAMBDA t : t.outcome = "returned")) |->
                 SelectSeq(done, LAMBDA t : t.outcome = "returned")[i].value])

-----------------------------------------------------------------------------
(* The service as a state machine: one call at a time; the fan-out of       *)
(* discover_from_all_trusted suspends once per origin, in any order.        *)

Pending == [outcome |-> "pending", value |-> <<>>]
NoSvcCall ==
    [op |-> "none", pc |-> "done", origin |-> Absent, response |-> Response("none", "none", <<>>),
     pre_trusted |-> <<>>, pre_cache |-> <<>>, ret |-> [outcome |-> "none", value |-> <<>>],
     origins |-> <<>>, tasks |-> <<>>, added |-> {}]

SvcInit ==
    /\ trusted = <<>>
    /\ cache = <<>>
    /\ svc = NoSvcCall
    /\ RegistryIdle /\ CodecIdle /\ DiscoveryIdle
    /\ PureIdle /\ SearchIdle /\ FileIdle

\* a call that starts now: what it was given and what the service held
SvcCall(op, origin, response) ==
    [NoSvcCall EXCEPT !.op = op, !.origin = origin, !.response = response,
                      !.pre_trusted = trusted, !.pre_cache = cache, !.added = svc.added]
SvcRest == UNCHANGED <<regVars, codecVars, discVars, pureVars, searchVars, fileVars>>

AddTrustedOrigin ==
    \E o \in Origins :
        /\ svc.pc = "done"
        /\ trusted' = add_trusted_origin(trusted, o)
        /\ svc' = [SvcCall("add_trusted_origin", o, NoSvcCall.response)
                      EXCEPT !.added = svc.added \cup {o}]
        /\ UNCHANGED cache /\ SvcRest

RemoveTrustedOrigin ==
    \E o \in Origins :
        /\ svc.pc = "done"
        /\ trusted' = remove_trusted_origin(trusted, o)
        /\ svc' = [SvcCall("remove_trusted_origin", o, NoSvcCall.response)
                      EXCEPT !.added = svc.added \ {o}]
        /\ UNCHANGED cache /\ SvcRest

IsTrusted ==
    \E o \in Origins :
        /\ svc.pc = "done"
        /\ svc' = [SvcCall("is_trusted", o, NoSvcCall.response)
                      EXCEPT !.ret = Returned(o \in SeqToSet(trusted))]
        /\ UNCHANGED <<trusted, cache>> /\ SvcRest

\* client.discover(origin)
Discover ==
    \E o \in Origins, r \in Responses :
        /\ svc.pc = "done"
        /\ svc' = [SvcCall("discover", o, r) EXCEPT !.ret = discover(o, r)]
        /\ UNCHANGED <<trusted, cache>> /\ SvcRest

\* client.fetch_skill_md(origin, skill_name)
FetchSkillMd ==
    \E o \in Origins, r \in Responses :
        /\ svc.pc = "done"
        /\ svc' = [SvcCall("fetch_skill_md", o, r) EXCEPT !.ret = fetch_text(r)]
        /\ UNCHANGED <<trusted, cache>> /\ SvcRest

\* client.fetch_skill_resource(origin, skill_name, resource_path)
FetchSkillResource ==
    \E o \in Origins, r \in Responses :
        /\ svc.pc = "done"
        /\ svc' = [SvcCall("fetch_skill_resource", o, r) EXCEPT !.ret = fetch_text(r)]
        /\ UNCHANGED <<trusted, cache>> /\ SvcRest

\* client.check_origin(origin)
CheckOrigin ==
    \E o \in Origins, r \in Responses :
        /\ svc.pc = "done"
        /\ svc' = [SvcCall("check_origin", o, r) EXCEPT !.ret = check_origin(o, r)]
        /\ UNCHANGED <<trusted, cache>> /\ SvcRest

\* a cache that adds the new skills to the ones it holds for the origin
CachedMerging(results, origin, outcome) ==
    IF outcome.outcome # "returned" THEN results
    ELSE IF origin \in DOMAIN results
    THEN (origin :> [outcome.value EXCEPT !.skills = results[origin].skills \o @]) @@ results
    ELSE (origin :> outcome.value) @@ results

\* self._discovered_skills[origin] = result, reached only when discover returned
Cached(results, origin, outcome) ==
    IF outcome.outcome = "returned" THEN (origin :> outcome.value) @@ results ELSE results

\* service.discover_from_origin(origin)
DiscoverFromOrigin ==
    \E o \in Origins, r \in Responses :
        /\ svc.pc = "done"
        /\ svc' = [SvcCall("discover_from_origin", o, r) EXCEPT !.ret = discover(o, r)]
        /\ cache' = Cached(cache, o, discover(o, r))
        /\ UNCHANGED trusted /\ SvcRest

\* discover_from_all_trusted: one discover_from_origin task per trusted origin
CallDiscoverFromAllTrusted ==
    /\ svc.pc = "done"
    /\ svc' = [SvcCall("discover_from_all_trusted", Absent, NoSvcCall.response)
                  EXCEPT !.pc = "gather", !.origins = trusted,
                         !.tasks = [i \in 1..Len(trusted) |-> Pending]]
    /\ UNCHANGED <<trusted, cache>> /\ SvcRest

\* the discover of one task ends: its result is cached and kept, or its exception is kept
OriginAnswers ==
    \E i \in 1..Len(svc.tasks), r \in Responses :
        /\ svc.pc = "gather"
        /\ svc.tasks[i] = Pending
        /\ svc' = [svc EXCEPT !.tasks[i] = discover(svc.origins[i], r)]
        /\ cache' = Cached(cache, svc.origins[i], discover(svc.origins[i], r))
        /\ UNCHANGED trusted /\ SvcRest

\* every task is done: the list of the DiscoveryResults is returned
GatherReturns ==
    /\ svc.pc = "gather"
    /\ \A i \in 1..Len(svc.tasks) : svc.tasks[i] # Pending
    /\ svc' = [svc EXCEPT !.pc = "done", !.ret = gather_results(svc.tasks)]
    /\ UNCHANGED <<trusted, cache>> /\ SvcRest

SvcNext ==
    \/ AddTrustedOrigin
    \/ RemoveTrustedOrigin
    \/ IsTrusted
    \/ Discover
    \/ FetchSkillMd
    \/ FetchSkillResource
    \/ CheckOrigin
    \/ DiscoverFromOrigin
    \/ CallDiscoverFromAllTrusted
    \/ OriginAnswers
    \/ GatherReturns

SvcSpec == SvcInit /\ [][SvcNext]_vars

-----------------------------------------------------------------------------
(* Claims about the single-item operations and the service, checked under   *)
(* SvcSpec.                                                                 *)

FetchFailed == svc.response.status # "ok"
\* a 2xx body that is no index: no JSON, no object, "skills" that is no list, an entry
\* without a name
MalformedIndex ==
    /\ svc.response.status = "ok"
    /\ \/ svc.response.kind \in {"not_json", "not_object", "skills_null", "skills_empty_object"}
       \/ \E i \in 1..Len(svc.response.skills) : svc.response.skills[i].name = AbsentText

\* C11: discover, fetch_skill_md and fetch_skill_resource propagate every fetch failure
\* (unreachable origin, timeout, non-success response, malformed index): none of them
\* returns a value or a default when its fetch fails.
C11_FailurePropagates ==
    /\ (svc.op \in {"fetch_skill_md", "fetch_skill_resource"} /\ FetchFailed)
            => svc.ret = Raised
    /\ (svc.op = "discover" /\ (FetchFailed \/ MalformedIndex)) => svc.ret = Raised

\* C12: check_origin never raises: it returns true exactly when discover succeeds and
\* false on any failure, and changes neither the trusted-origin list nor the cache.
C12_CheckOriginIsAProbe ==
    svc.op = "check_origin" =>
        /\ svc.ret.outcome = "returned"
        /\ svc.ret.value = (discover(svc.origin, svc.response).outcome = "returned")
        /\ trusted = svc.pre_trusted
        /\ cache = svc.pre_cache

\* C12 witness: a probe of a trusted, cached origin whose fetch failed returned false.
C12_Witness ==
    /\ svc.op = "check_origin"
    /\ FetchFailed
    /\ svc.ret = Returned(FALSE)
    /\ svc.origin \in SeqToSet(trusted)
    /\ svc.origin \in DOMAIN cache

FanOutDone == svc.op = "discover_from_all_trusted" /\ svc.pc = "done"
Succeeded == {i \in 1..Len(svc.tasks) : svc.tasks[i].outcome = "returned"}

\* C13: discover_from_all_trusted never fails because one origin fails: it issues one
\* discover per trusted origin and returns exactly the DiscoveryResults of the trusted
\* origins whose discover succeeded, in the order of the list, in any completion
\* interleaving; a failing origin contributes no element and no error.
C13_FanOutIsolatesFailures ==
    /\ svc.op = "discover_from_all_trusted" =>
        /\ svc.origins = svc.pre_trusted
        /\ Len(svc.tasks) = Len(svc.origins)
    /\ FanOutDone =>
        /\ svc.ret.outcome = "returned"
        /\ Len(svc.ret.value) = Cardinality(Succeeded)
        /\ \A i \in Succeeded :
            LET k == Cardinality({j \in Succeeded : j <= i})
            IN  /\ svc.ret.value[k] = svc.tasks[i].value
                /\ svc.ret.value[k].origin = svc.origins[i]

\* C13 witness: a fan-out over two origins returned after the second origin had
\* answered and the first had failed.
C13_Witness ==
    /\ FanOutDone
    /\ Len(svc.tasks) = 2
    /\ svc.tasks[1] = Raised
    /\ svc.tasks[2].outcome = "returned"
    /\ Len(svc.tasks[2].value.skills) = 2

\* C14: after any sequence of add and remove calls the trusted-origin list holds no
\* duplicate: add of a present origin and remove of an absent one leave it unchanged,
\* and is_trusted(o) is true exactly when o was added and not removed since.
C14_TrustedListIsASet ==
    /\ \A i, j \in 1..Len(trusted) : i # j => trusted[i] # trusted[j]
    /\ SeqToSet(trusted) = svc.added
    /\ (svc.op = "add_trusted_origin" /\ svc.origin \in SeqToSet(svc.pre_trusted))
            => trusted = svc.pre_trusted
    /\ (svc.op = "add_trusted_origin" /\ svc.origin \notin SeqToSet(svc.pre_trusted))
            => trusted = Append(svc.pre_trusted, svc.origin)
    /\ (svc.op = "remove_trusted_origin" /\ svc.origin \notin SeqToSet(svc.pre_trusted))
            => trusted = svc.pre_trusted
    /\ svc.op = "is_trusted" => svc.ret = Returned(svc.origin \in svc.added)

\* C14 witness: an origin already on a list of two was added again.
C14_Witness ==
    /\ svc.op = "add_trusted_origin"
    /\ Len(svc.pre_trusted) = 2
    /\ svc.origin \in SeqToSet(svc.pre_trusted)

-----------------------------------------------------------------------------
(* The normalizer and the validator applied to names: a name is normalized, *)
(* its slug validated and normalized again.                                 *)

MaxNameTail == 3    \* characters of a name after its run of "a"

\* lower and upper case letters, a digit, separators, a symbol, a letter outside ASCII
NameChars == {"a", "A", "1", "-", " ", "_", "@", "é"}
\* the lengths of the run: none, and runs that put the tail across the 64th character
RunLengths == {0, SlugLimit - 2, SlugLimit - 1}
NameSamples ==
    {[i \in 1..n |-> "a"] \o tail : n \in RunLengths, tail \in SeqsUpTo(NameChars, MaxNameTail)}

NormInit ==
    /\ norm \in {[name |-> n, slug |-> AbsentText, again |-> AbsentText, validated |-> "no"] :
                    n \in NameSamples}
    /\ proj = <<>>
    /\ RegistryIdle /\ CodecIdle /\ DiscoveryIdle
    /\ ServiceIdle /\ SearchIdle /\ FileIdle

NormRest == UNCHANGED <<proj, regVars, codecVars, discVars, svcVars, searchVars, fileVars>>

\* slug = normalize_skill_name(name)
Normalize ==
    /\ norm.slug = AbsentText
    /\ norm' = [norm EXCEPT !.slug = normalize_skill_name(norm.name)]
    /\ NormRest

\* normalize_skill_name(slug)
NormalizeAgain ==
    /\ norm.slug # AbsentText
    /\ norm.again = AbsentText
    /\ norm' = [norm EXCEPT !.again = normalize_skill_name(norm.slug)]
    /\ NormRest

\* validate_skill_name(slug): returns the slug or raises ValueError
Validate ==
    /\ norm.slug # AbsentText
    /\ norm.validated = "no"
    /\ norm' = [norm EXCEPT !.validated = IF validate_skill_name(norm.slug) THEN "returned"
                                          ELSE "raised"]
    /\ NormRest

NormNext ==
    \/ Normalize
    \/ NormalizeAgain
    \/ Validate

NormSpec == NormInit /\ [][NormNext]_vars

-----------------------------------------------------------------------------
(* Claims about the normalizer, checked under NormSpec.                     *)

\* C15: normalize is idempotent: normalize(normalize(name)) = normalize(name).
C15_NormalizeIdempotent ==
    norm.again # AbsentText => norm.again = norm.slug

\* C15 witness: the slug of a name of more than 64 characters, cut at a hyphen, was
\* normalized again.
C15_Witness ==
    /\ norm.again # AbsentText
    /\ Len(norm.name) > SlugLimit
    /\ norm.name[SlugLimit] \in {"-", " ", "_"}
    /\ Len(norm.slug) = SlugLimit - 1

AsciiAlnum == {"a", "A", "1"}
\* the characters str.isalnum() accepts
Alnum == AsciiAlnum \cup {"é"}
Contains(name, cls) == \E i \in 1..Len(name) : name[i] \in cls

\* a slug of 1-64 characters that starts and ends with a lowercase letter or digit and
\* holds only lowercase letters, digits and hyphens, accepted by validate
ValidSlug ==
    /\ norm.validated = "returned"
    /\ Len(norm.slug) \in 1..SlugLimit
    /\ norm.slug[1] \in {"a", "1"}
    /\ Last(norm.slug) \in {"a", "1"}
    /\ \A i \in 1..Len(norm.slug) : norm.slug[i] \in {"a", "1", "-"}

-----------------------------------------------------------------------------
(* The progressive-disclosure projections: SkillRenderer.get_skill_level1   *)
(* and get_skill_level2 of a local skill, DiscoveryClient.get_skill_level1  *)
(* of an origin's index.                                                    *)

\* a Level 1 that lets the tags through
renderer_get_skill_level1_with_tags(skill) ==
    [name |-> skill.slug, description |-> skill.description, tags |-> skill.tags]

\* SkillRenderer.get_skill_level1: SkillLevel1(name=skill.slug, description=...)
renderer_get_skill_level1(skill) ==
    [name |-> skill.slug, description |-> skill.description]

\* SkillRenderer.get_skill_level2: the nine fields of SkillLevel2
renderer_get_skill_level2(skill) ==
    [name |-> skill.slug, description |-> skill.description, version |-> skill.version,
     author |-> skill.author, tags |-> skill.tags, input_schema |-> skill.input_schema,
     output_schema |-> skill.output_schema, documentation |-> skill.documentation,
     examples |-> skill.examples]

\* DiscoveryClient.get_skill_level1: discover, then a SkillLevel1 per RemoteSkillInfo
client_get_skill_level1(origin, response) ==
    IF discover(origin, response).outcome = "raised" THEN Raised
    ELSE Returned([i \in 1..Len(discover(origin, response).value.skills) |->
                    [name |-> discover(origin, response).value.skills[i].name,
                     description |-> discover(origin, response).value.skills[i].description]])

NoProjection == [level |-> "none", outcome |-> "none", value |-> <<>>]
ProjInit ==
    /\ proj \in {[source |-> "local", skill |-> sk, response |-> NoSvcCall.response,
                  out |-> NoProjection] : sk \in CodecSkills}
           \cup {[source |-> "remote", skill |-> NoCodecSkill, response |-> r,
                  out |-> NoProjection] : r \in Responses}
    /\ norm = <<>>
    /\ RegistryIdle /\ CodecIdle /\ DiscoveryIdle
    /\ ServiceIdle /\ SearchIdle /\ FileIdle

ProjRest == UNCHANGED <<norm, regVars, codecVars, discVars, svcVars, searchVars, fileVars>>
Unprojected(source) == proj.source = source /\ proj.out = NoProjection

\* GET /api/v1/skills/level1 for one stored skill
LocalLevel1 ==
    /\ Unprojected("local")
    /\ proj' = [proj EXCEPT !.out = [level |-> "level1", outcome |-> "returned",
                                     value |-> renderer_get_skill_level1(proj.skill)]]
    /\ ProjRest

\* GET /api/v1/skills/{skill_name}/level2
LocalLevel2 ==
    /\ Unprojected("local")
    /\ proj' = [proj EXCEPT !.out = [level |-> "level2", outcome |-> "returned",
                                     value |-> renderer_get_skill_level2(proj.skill)]]
    /\ ProjRest

\* client.get_skill_level1(origin)
RemoteLevel1 ==
    /\ Unprojected("remote")
    /\ proj' = [proj EXCEPT !.out =
                    [level |-> "level1",
                     outcome |-> client_get_skill_level1("o1", proj.response).outcome,
                     value |-> client_get_skill_level1("o1", proj.response).value]]
    /\ ProjRest

ProjNext ==
    \/ LocalLevel1
    \/ LocalLevel2
    \/ RemoteLevel1

ProjSpec == ProjInit /\ [][ProjNext]_vars

-----------------------------------------------------------------------------
(* Claims about the projections, checked under ProjSpec.                    *)

Level1Fields == {"name", "description"}
HeavyFields == {"input_schema", "output_schema", "documentation", "tags", "examples"}
IsLevel1(value) == DOMAIN value = Level1Fields /\ DOMAIN value \cap HeavyFields = {}

\* C17: the Level1 projection of a skill has exactly the fields name (the skill's slug)
\* and description, a strict subset of the fields of Level2; it never carries
\* input_schema, output_schema, documentation, tags or examples, for local skills and
\* for skills discovered from a remote index.
C17_Level1IsNameAndDescription ==
    /\ (proj.source = "local" /\ proj.out.level = "level1") =>
        /\ IsLevel1(proj.out.value)
        /\ proj.out.value.name = proj.skill.slug
        /\ proj.out.value.description = proj.skill.description
        /\ DOMAIN proj.out.value \subseteq DOMAIN renderer_get_skill_level2(proj.skill)
        /\ DOMAIN proj.out.value # DOMAIN renderer_get_skill_level2(proj.skill)
    /\ (proj.source = "local" /\ proj.out.level = "level2") =>
        /\ proj.out.value.name = proj.skill.slug
        /\ Level1Fields \cup HeavyFields \subseteq DOMAIN proj.out.value
    /\ (proj.source = "remote" /\ proj.out.outcome = "returned") =>
        /\ Len(proj.out.value) = Len(proj.response.skills)
        /\ \A i \in 1..Len(proj.out.value) :
            /\ IsLevel1(proj.out.value[i])
            /\ proj.out.value[i].name = proj.response.skills[i].name

\* C17 witness: the Level 1 of a local skill that has tags, an input schema and an
\* example was made.
C17_Witness ==
    /\ proj.source = "local"
    /\ proj.out.level = "level1"
    /\ proj.skill.tags # <<>>
    /\ proj.skill.input_schema # <<>>
    /\ proj.skill.examples # <<>>

-----------------------------------------------------------------------------
(* The search facade: POST /skills, DELETE /skills/{skill_id} and GET       *)
(* /search of main.py over the registry and the vector index.               *)

MaxLimit == 2       \* the limit a search asks for

\* Python floats are binary floating point rounded to nearest, ties to even.  The
\* model keeps that arithmetic at a narrower width: Precision significant bits,
\* values counted in units of 1/Unit, the largest distance MaxDistance / Unit.  As
\* with the 53-bit format, 1 + the largest value does not overflow and 1 / the
\* largest value does not underflow to zero.
Precision == 3
Unit == 64
MaxDistance == 1792

\* n / d rounded to an integer, ties to the even one
RoundHalfEven(n, d) ==
    IF 2 * (n % d) < d THEN n \div d
    ELSE IF 2 * (n % d) > d THEN (n \div d) + 1
    ELSE IF (n \div d) % 2 = 0 THEN n \div d ELSE (n \div d) + 1

\* the spacing of the floats around n / d units
RECURSIVE Spacing(_, _, _)
Spacing(n, d, step) ==
    IF n < (2 ^ Precision) * step * d THEN step ELSE Spacing(n, d, 2 * step)

\* the float nearest to n / d units
FloatDiv(n, d) == RoundHalfEven(n, d * Spacing(n, d, 1)) * Spacing(n, d, 1)
FloatAdd(a, b) == FloatDiv(a + b, 1)

\* a score that grows with the distance
ScoreGrowing(distance) == FloatDiv(distance * Unit, FloatAdd(Unit, distance))

\* score = 1 / (1 + distance)
Score(distance) == FloatDiv(Unit * Unit, FloatAdd(Unit, distance))

\* the distances the vector index reports: 0, 1/64, 1/8, 1 and the largest
DistanceSamples == {0, 1, 8, 64, MaxDistance}

Min(a, b) == IF a < b THEN a ELSE b

\* collection.query(n_results=limit): the nearest min(limit, count) ids, each once,
\* nearest first, whatever the embedding makes the order
QueryResults(ids, limit) ==
    { [i \in 1..Min(limit, Cardinality(ids)) |-> [id |-> r[i], distance |-> ds[i]]] :
        r \in { f \in [1..Min(limit, Cardinality(ids)) -> ids] :
                  \A i, j \in DOMAIN f : i # j => f[i] # f[j] },
        ds \in { g \in [1..Min(limit, Cardinality(ids)) -> DistanceSamples] :
                  \A i, j \in DOMAIN g : i < j => g[i] <= g[j] } }

\* RegistryService.get_skill: the first listed skill with the id, NoSkill for None
get_skill(skills_data, skill_id) ==
    IF FileTargetIndex(skills_data, skill_id) = 0 THEN NoSkill
    ELSE _ensure_skill_fields(skills_data[FileTargetIndex(skills_data, skill_id)])

\* the loop of search_skills: an id the registry does not know adds nothing
RECURSIVE Hydrate(_, _)
Hydrate(skills_data, results) ==
    IF results = <<>> THEN <<>>
    ELSE (IF get_skill(skills_data, Head(results).id) = NoSkill THEN <<>>
          ELSE << [skill |-> get_skill(skills_data, Head(results).id),
                   score |-> Score(Head(results).distance)] >>)
         \o Hydrate(skills_data, Tail(results))

\* a loop without "if skill:", which builds SearchResult(skill=None, ...) and fails
search_skills_unguarded(skills_data, results) ==
    IF \E i \in 1..Len(results) : get_skill(skills_data, results[i].id) = NoSkill
    THEN Raised
    ELSE Returned(Hydrate(skills_data, results))

\* search_skills, given what search_ids returned
search_skills(skills_data, results) == Returned(Hydrate(skills_data, results))

SearchNames == { <<"A", " ">>, <<"a">>, <<"1">> }
NoAnswer == [op |-> "none", limit |-> 0, raw |-> <<>>, outcome |-> "none", value |-> <<>>]

SearchInit ==
    /\ store = <<>>
    /\ nextId = 1
    /\ clock = 0
    /\ last = NoCall
    /\ calls = 0
    /\ collection = {}
    /\ answer = NoAnswer
    /\ CodecIdle /\ DiscoveryIdle /\ ServiceIdle /\ PureIdle /\ FileIdle

SearchStep ==
    /\ calls < MaxCalls
    /\ calls' = calls + 1
    /\ UNCHANGED <<last, codecVars, discVars, svcVars, pureVars, fileVars>>

\* POST /skills: a Skill with a fresh id and the derived slug goes to the registry,
\* the record the registry saved goes to the vector index under its id
RegisterSkill ==
    \E name \in SearchNames :
        /\ SearchStep
        /\ store' = RegisterData(store, Skill(name, "v1", AbsentNum, <<>>, AbsentNum,
                                              AbsentNum, nextId, clock + 1))
        /\ collection' = collection \cup
               {RegisterDict(store, Skill(name, "v1", AbsentNum, <<>>, AbsentNum,
                                          AbsentNum, nextId, clock + 1)).id}
        /\ nextId' = nextId + 1
        /\ clock' = clock + 1
        /\ answer' = NoAnswer

\* DELETE /skills/{skill_id}: the registry forgets the record, the vector index is
\* not told
DeleteSkill ==
    \E skill_id \in 1..nextId :
        /\ SearchStep
        /\ Len(DeleteData(store, skill_id)) < Len(store)
        /\ store' = DeleteData(store, skill_id)
        /\ answer' = NoAnswer
        /\ UNCHANGED <<nextId, clock, collection>>

\* DELETE /skills/{skill_id} of an id the registry does not hold: 404
DeleteMissing ==
    \E skill_id \in 1..nextId :
        /\ SearchStep
        /\ Len(DeleteData(store, skill_id)) = Len(store)
        /\ answer' = NoAnswer
        /\ UNCHANGED <<store, nextId, clock, collection>>

\* GET /search?q=...&limit=...
SearchSkills ==
    \E limit \in 1..MaxLimit :
        \E results \in QueryResults(collection, limit) :
            /\ SearchStep
            /\ answer' = [op |-> "search", limit |-> limit, raw |-> results,
                          outcome |-> search_skills(store, results).outcome,
                          value |-> search_skills(store, results).value]
            /\ UNCHANGED <<store, nextId, clock, collection>>

SearchNext ==
    \/ RegisterSkill
    \/ DeleteSkill
    \/ DeleteMissing
    \/ SearchSkills

SearchSpec == SearchInit /\ [][SearchNext]_vars

-----------------------------------------------------------------------------
(* Claims about search, checked under SearchSpec.                           *)

Searched == answer.op = "search"
StoredIds == {store[i].id : i \in 1..Len(store)}
\* what the vector index returned, without the ids the registry does not hold
Known == SelectSeq(answer.raw, LAMBDA r : r.id \in StoredIds)

\* C18: search(query, limit) returns at most limit skill-and-score pairs, in the order
\* the vector index returned their ids; an id with no registry record is dropped, so
\* every returned skill is a currently stored record, and the search raises no error.
C18_SearchReturnsStoredSkills ==
    Searched =>
        /\ answer.outcome = "returned"
        /\ Len(answer.value) <= answer.limit
        /\ Len(answer.value) = Len(Known)
        /\ \A k \in 1..Len(answer.value) :
            /\ answer.value[k].skill.id = Known[k].id
            /\ \E i \in 1..Len(store) : store[i] = answer.value[k].skill

\* C18 witness: a search whose limit the index filled, with an id of a deleted skill
\* and an id of a stored one.
C18_Witness ==
    /\ Searched
    /\ Len(answer.raw) = answer.limit
    /\ Len(answer.value) >= 1
    /\ Len(answer.value) < Len(answer.raw)

\* C19 as stated: every score is in (0, 1], is 1 only for distance 0, and a smaller
\* distance has a strictly larger score.
C19_ScoreStrictlyDecreasing ==
    Searched =>
        \A k \in 1..Len(answer.value) :
            /\ answer.value[k].score > 0
            /\ answer.value[k].score <= Unit
            /\ answer.value[k].score = Unit <=> Known[k].distance = 0
            /\ \A j \in 1..Len(answer.value) :
                Known[k].distance < Known[j].distance =>
                    answer.value[k].score > answer.value[j].score

\* C19, amended: every score is in (0, 1], distance 0 has score 1, and a smaller
\* distance never has a smaller score.
C19_ScoreNeverIncreasing ==
    Searched =>
        \A k \in 1..Len(answer.value) :
            /\ answer.value[k].score > 0
            /\ answer.value[k].score <= Unit
            /\ Known[k].distance = 0 => answer.value[k].score = Unit
            /\ \A j \in 1..Len(answer.value) :
                Known[k].distance < Known[j].distance =>
                    answer.value[k].score >= answer.value[j].score

\* C19 witness: a search returned two skills, the first at distance 0, the second at
\* the largest distance.
C19_Witness ==
    /\ Searched
    /\ Len(answer.value) = 2
    /\ Known[1].distance = 0
    /\ Known[2].distance = MaxDistance
    /\ answer.value[1].score > answer.value[2].score

-----------------------------------------------------------------------------
(* The backing file of the registry, skills.json, shared by a register_skill *)
(* and a reader that runs while it is under way.                            *)

\* the file: the items its text holds so far, and whether the text is a whole JSON value
File(items, complete) == [items |-> items, complete |-> complete]

\* _load: json.load of the file, [] where the text does not parse
_load(file) == IF file.complete THEN file.items ELSE <<>>

\* list_skills over what _load returned
list_skills(data) == [i \in 1..Len(data) |-> _ensure_skill_fields(data[i])]

\* get_skill_by_slug over what _load returned, NoSkill for None
get_skill_by_slug(data, slug) ==
    IF FirstIndex({i \in 1..Len(data) : list_skills(data)[i].slug = slug}) = 0 THEN NoSkill
    ELSE list_skills(data)[FirstIndex({i \in 1..Len(data) :
                                          list_skills(data)[i].slug = slug})]

\* what a reader gets from a registry whose file holds data
Observation(op, skill_id, slug, data) ==
    [skills |-> IF op = "list_skills" THEN list_skills(data) ELSE <<>>,
     skill |-> IF op = "get_skill" THEN get_skill(data, skill_id)
               ELSE IF op = "get_skill_by_slug" THEN get_skill_by_slug(data, slug)
               ELSE NoSkill]

ReaderSlugs == {<<"a">>, <<"1">>}
NoRead == [op |-> "none", skill_id |-> AbsentNum, slug |-> AbsentText, racing |-> FALSE,
           pre |-> <<>>, post |-> <<>>, ret |-> Observation("none", AbsentNum, AbsentText, <<>>)]
NoWrite == [pc |-> "idle", pre |-> <<>>, post |-> <<>>, reader |-> NoRead]

\* RegistryService(): _ensure_storage has written "[]"
FileInit ==
    /\ disk = File(<<>>, TRUE)
    /\ io = NoWrite
    /\ RegistryIdle /\ CodecIdle /\ DiscoveryIdle /\ ServiceIdle /\ PureIdle /\ SearchIdle

FileRest == UNCHANGED <<store, last, codecVars, discVars, svcVars, pureVars, searchVars>>

\* register_skill up to its call of _save: the file is read and the new list is built;
\* the reader followed from here on is one that runs during this call
RegisterLoads ==
    \E name \in SearchNames :
        /\ io.pc = "idle"
        /\ calls < MaxCalls
        /\ calls' = calls + 1
        /\ io' = [pc |-> "loaded", pre |-> _load(disk),
                  post |-> RegisterData(_load(disk),
                               Skill(name, "v1", AbsentNum, <<>>, AbsentNum, AbsentNum,
                                     nextId, clock + 1)),
                  reader |-> NoRead]
        /\ nextId' = nextId + 1
        /\ clock' = clock + 1
        /\ UNCHANGED disk
        /\ FileRest

\* _save: open(self.storage_path, "w") empties the file
SaveOpens ==
    /\ io.pc = "loaded"
    /\ disk' = File(<<>>, FALSE)
    /\ io' = [io EXCEPT !.pc = "opened"]
    /\ UNCHANGED <<nextId, clock, calls>>
    /\ FileRest

\* _save: json.dump writes piece by piece, the buffer reaches the file before the end
SaveFlushes ==
    /\ io.pc = "opened"
    /\ Len(disk.items) < Len(io.post)
    /\ disk' = File(SubSeq(io.post, 1, Len(disk.items) + 1), FALSE)
    /\ UNCHANGED <<io, nextId, clock, calls>>
    /\ FileRest

\* _save: leaving the with block writes the rest and closes the file
SaveCloses ==
    /\ io.pc = "opened"
    /\ disk' = File(io.post, TRUE)
    /\ io' = [io EXCEPT !.pc = "idle"]
    /\ UNCHANGED <<nextId, clock, calls>>
    /\ FileRest

\* a reader in another thread or process, on the same file: what it notes of its call
Reading(op, skill_id, slug) ==
    [op |-> op, skill_id |-> skill_id, slug |-> slug, racing |-> io.pc # "idle",
     pre |-> io.pre, post |-> io.post,
     ret |-> Observation(op, skill_id, slug, _load(disk))]

ListSkills ==
    /\ io' = [io EXCEPT !.reader = Reading("list_skills", AbsentNum, AbsentText)]
    /\ UNCHANGED <<disk, nextId, clock, calls>>
    /\ FileRest

GetSkill ==
    \E skill_id \in 1..nextId :
        /\ io' = [io EXCEPT !.reader = Reading("get_skill", skill_id, AbsentText)]
        /\ UNCHANGED <<disk, nextId, clock, calls>>
        /\ FileRest

GetSkillBySlug ==
    \E slug \in ReaderSlugs :
        /\ io' = [io EXCEPT !.reader = Reading("get_skill_by_slug", AbsentNum, slug)]
        /\ UNCHANGED <<disk, nextId, clock, calls>>
        /\ FileRest

FileNext ==
    \/ RegisterLoads
    \/ SaveOpens
    \/ SaveFlushes
    \/ SaveCloses
    \/ ListSkills
    \/ GetSkill
    \/ GetSkillBySlug

FileSpec == FileInit /\ [][FileNext]_vars

-----------------------------------------------------------------------------
(* Claims about readers of the backing file, checked under FileSpec.        *)

\* C20: a reader (list, get, get_by_slug) that runs while a register is under way on
\* the same backing store observes the content before the update or the content after
\* it, never a partial or missing one.
C20_ReaderSeesPreOrPost ==
    (io.reader.op # "none" /\ io.reader.racing) =>
        \/ io.reader.ret = Observation(io.reader.op, io.reader.skill_id, io.reader.slug,
                                       io.reader.pre)
        \/ io.reader.ret = Observation(io.reader.op, io.reader.skill_id, io.reader.slug,
                                       io.reader.post)

-----------------------------------------------------------------------------
(* Two register_skill calls under way at once on the same skills.json.  The *)
(* steps they interleave are each call's _load and each call's _save.       *)

Writers == {1, 2}

\* what skills.json holds when the two calls start: nothing, or one skill
StoredBefore ==
    { <<>>,
      << Skill(<<"a">>, "v0", AbsentNum, <<>>, AbsentNum, AbsentNum, 10, 0) >>,
      << Skill(<<"1">>, "v0", AbsentNum, <<>>, AbsentNum, AbsentNum, 10, 0) >> }

\* the Skill a writer's caller built: its own uuid, the time of its construction
WriterSkill(w, name, description) ==
    Skill(name, description, AbsentNum, <<>>, AbsentNum, AbsentNum, w, w)

RaceInit ==
    /\ disk \in {File(items, TRUE) : items \in StoredBefore}
    /\ \E n1 \in SearchNames, n2 \in SearchNames, d1 \in Descriptions, d2 \in Descriptions :
        io = [w \in Writers |->
                [pc |-> "called", pre |-> disk.items, data |-> <<>>,
                 skill |-> IF w = 1 THEN WriterSkill(1, n1, d1) ELSE WriterSkill(2, n2, d2)]]
    /\ RegistryIdle /\ CodecIdle /\ DiscoveryIdle /\ ServiceIdle /\ PureIdle /\ SearchIdle

RaceRest == UNCHANGED <<regVars, codecVars, discVars, svcVars, pureVars, searchVars>>

\* register_skill down to its call of _save: _load, the scan, the replace or append
WriterLoads ==
    \E w \in Writers :
        /\ io[w].pc = "called"
        /\ io' = [io EXCEPT ![w].pc = "loaded",
                            ![w].data = RegisterData(_load(disk), io[w].skill)]
        /\ UNCHANGED disk
        /\ RaceRest

\* self._save(skills_data) and the return
WriterSaves ==
    \E w \in Writers :
        /\ io[w].pc = "loaded"
        /\ disk' = File(io[w].data, TRUE)
        /\ io' = [io EXCEPT ![w].pc = "returned"]
        /\ RaceRest

RaceNext ==
    \/ WriterLoads
    \/ WriterSaves

RaceSpec == RaceInit /\ [][RaceNext]_vars

-----------------------------------------------------------------------------
(* Claims about concurrent registers, checked under RaceSpec.               *)

BothReturned == \A w \in Writers : io[w].pc = "returned"
SameSlug == io[1].skill.slug = io[2].skill.slug
WithSlug(slug) == {i \in 1..Len(_load(disk)) : list_skills(_load(disk))[i].slug = slug}
Supplied(record, w) ==
    /\ record.name = io[w].skill.name
    /\ record.description = io[w].skill.description

\* C21: two concurrent register calls on the same slug race with last-write-wins: in
\* every interleaving of their load and save steps, once both have returned the registry
\* holds exactly one record with that slug, and its fields are those one of the two
\* calls supplied.
C21_LastWriteWins ==
    (BothReturned /\ SameSlug) =>
        /\ Cardinality(WithSlug(io[1].skill.slug)) = 1
        /\ \A i \in WithSlug(io[1].skill.slug) :
            \E w \in Writers : Supplied(_load(disk)[i], w)

\* C21 witness: both calls loaded before either saved, on one slug with different
\* descriptions, and both have returned.
C21_Witness ==
    /\ BothReturned
    /\ SameSlug
    /\ io[1].skill.description # io[2].skill.description
    /\ io[1].data # io[2].data
    /\ \A w \in Writers : Len(io[w].data) = Len(io[w].pre) + 1

\* C30: after two concurrent register calls on two distinct slugs have both returned,
\* in every interleaving of their load and save steps, the registry holds a record for
\* each of the two slugs and every record that was stored before.
C30_NoRegistrationLost ==
    (BothReturned /\ ~SameSlug) =>
        /\ \A w \in Writers : WithSlug(io[w].skill.slug) # {}
        /\ \A k \in 1..Len(io[1].pre) :
            \E i \in 1..Len(_load(disk)) : _load(disk)[i].id = io[1].pre[k].id

-----------------------------------------------------------------------------
(* The registry over a skills.json that an older version wrote: some of its *)
(* records lack slug, files and updated_at.                                 *)

\* a record as the older version stored it
LegacyRecord(id, name) ==
    [id |-> id, name |-> name, description |-> "v0", slug |-> AbsentText,
     created_at |-> 0, updated_at |-> AbsentNum, files |-> AbsentText]

LegacyStores ==
    { << LegacyRecord(10, <<"a">>) >>,
      << LegacyRecord(10, <<"a">>), LegacyRecord(11, <<"1">>) >>,
      << Skill(<<"1">>, "v0", 11, <<>>, 0, 0, 11, 0), LegacyRecord(10, <<"a">>) >> }
LegacyIds == {10, 11}

\* the calls followed are the last LegacyCalls of a run
LegacyCalls == 2

LegacyInit ==
    /\ store \in LegacyStores
    /\ nextId = 1
    /\ clock = 0
    /\ last = NoCall
    /\ calls = MaxCalls - LegacyCalls
    /\ CodecIdle
    /\ DiscoveryIdle
    /\ MoreIdle

\* list_skills(): the loaded items are back-filled and returned, nothing is saved
ReadList ==
    /\ RegStep
    /\ last' = [NoCall EXCEPT !.op = "list_skills", !.pre = store, !.found = TRUE]
    /\ UNCHANGED <<store, nextId, clock>>

\* get_skill(skill_id)
ReadGet ==
    \E skill_id \in LegacyIds :
        /\ RegStep
        /\ last' = [NoCall EXCEPT !.op = "get_skill", !.skill.id = skill_id, !.pre = store,
                                    !.ret = get_skill(store, skill_id),
                                    !.found = get_skill(store, skill_id) # NoSkill]
        /\ UNCHANGED <<store, nextId, clock>>

\* get_skill_by_slug(slug)
ReadGetBySlug ==
    \E slug \in ReaderSlugs :
        /\ RegStep
        /\ last' = [NoCall EXCEPT !.op = "get_skill_by_slug", !.key = slug, !.pre = store,
                                    !.ret = get_skill_by_slug(store, slug),
                                    !.found = get_skill_by_slug(store, slug) # NoSkill]
        /\ UNCHANGED <<store, nextId, clock>>

\* delete_skill / add_skill_file of an id the older version gave
DeleteLegacy ==
    \E skill_id \in LegacyIds :
        /\ RegStep
        /\ store' = DeleteData(store, skill_id)
        /\ last' = [NoCall EXCEPT !.op = "delete", !.skill.id = skill_id, !.pre = store,
                                    !.found = Len(DeleteData(store, skill_id)) < Len(store)]
        /\ UNCHANGED <<nextId, clock>>

AddLegacyFile ==
    \E skill_id \in LegacyIds, path \in FilePaths :
        /\ RegStep
        /\ store' = AddFileData(store, skill_id, path)
        /\ last' = [NoCall EXCEPT !.op = "add_skill_file", !.skill.id = skill_id,
                                    !.key = <<path>>, !.pre = store,
                                    !.found = FileTargetIndex(store, skill_id) # 0]
        /\ UNCHANGED <<nextId, clock>>

LegacyNext ==
    \/ RegisterFresh
    \/ DeleteBySlug
    \/ DeleteLegacy
    \/ AddLegacyFile
    \/ ReadList
    \/ ReadGet
    \/ ReadGetBySlug

LegacySpec == LegacyInit /\ [][LegacyNext]_vars

-----------------------------------------------------------------------------
(* Claims about legacy records, checked under LegacySpec.                   *)

\* the records of before that the call neither replaced nor removed, as they were stored
KeptAsStored ==
    IF last.op = "register"
    THEN \A i \in 1..Len(last.pre) :
            i # ExistingIndex(last.pre, last.skill.slug) => store[i] = last.pre[i]
    ELSE IF last.op = "delete_by_slug"
    THEN store = SelectSeq(last.pre, LAMBDA s : _ensure_skill_fields(s).slug # last.key)
    ELSE IF last.op = "add_skill_file"
    THEN /\ Len(store) = Len(last.pre)
         /\ \A i \in 1..Len(last.pre) :
                i # FileTargetIndex(last.pre, last.skill.id) => store[i] = last.pre[i]
    ELSE TRUE

\* C22: the legacy back-fill is never persisted implicitly: list, get and get_by_slug
\* leave the backing store unchanged, and register, delete_by_slug and add_skill_file
\* write every stored record other than the one they insert, replace or remove exactly
\* as it was stored before.
C22_BackFillNotPersisted ==
    /\ last.op \in {"list_skills", "get_skill", "get_skill_by_slug"} => store = last.pre
    /\ KeptAsStored

-----------------------------------------------------------------------------
(* Claims about delete_skill and delete_skill_by_slug, checked under RegSpec. *)

HadId == \E i \in 1..Len(last.pre) : last.pre[i].id = last.skill.id
HadSlug == \E i \in 1..Len(last.pre) : _ensure_skill_fields(last.pre[i]).slug = last.key
OthersById == SelectSeq(last.pre, LAMBDA s : s.id # last.skill.id)
OthersBySlug == SelectSeq(last.pre, LAMBDA s : _ensure_skill_fields(s).slug # last.key)

\* C23: delete(id) returns true exactly when a record with that id was stored before the
\* call, and then no record with that id remains while all other records are kept in
\* their order; when it returns false the store is unchanged.  The same holds for
\* delete_by_slug with the slug as key.
C23_DeleteRemovesExactlyTheKey ==
    /\ last.op = "delete" =>
        /\ last.found = HadId
        /\ \A i \in 1..Len(store) : store[i].id # last.skill.id
        /\ Len(store) = Len(OthersById)
        /\ \A i \in 1..Len(store) : store[i].id = OthersById[i].id
        /\ ~last.found => store = last.pre
    /\ last.op = "delete_by_slug" =>
        /\ last.found = HadSlug
        /\ \A i \in 1..Len(store) : _ensure_skill_fields(store[i]).slug # last.key
        /\ Len(store) = Len(OthersBySlug)
        /\ \A i \in 1..Len(store) : store[i].id = OthersBySlug[i].id
        /\ ~last.found => store = last.pre

\* C23 witness: a delete by id found its record among at least two and removed it.
C23_Witness ==
    /\ last.op = "delete"
    /\ last.found
    /\ Len(last.pre) >= 2
    /\ Len(store) = Len(last.pre) - 1
    /\ store[1].id = last.skill.id + 1

-----------------------------------------------------------------------------
(* get_skill_level2 and get_skill_level3 of the discovery client next to    *)
(* the cache of DiscoveryService, against an origin whose content changes.  *)
(* Every fetch a call issues is noted in call.log, what it was served in    *)
(* call.seen.                                                               *)

FreshDocuments == {render_skill_md(MinimalSkill), render_skill_md(SchemaSkill)}
FreshIndexes ==
    { <<>>,
      << [name |-> <<"b">>, files |-> <<"b.md">>] >>,
      << [name |-> <<"a">>, files |-> <<"extra.json">>] >>,
      << [name |-> <<"a">>, files |-> <<SKILL_MD, "extra.json">>] >> }

NotCached == [cached |-> FALSE, skills |-> <<>>]
NothingSeen == [doc |-> AbsentText, index |-> <<>>, served |-> {}]
NoLevel2 == [ok |-> FALSE]
NotCalled == [op |-> "none", pc |-> "idle", skill_name |-> <<>>, files |-> <<>>,
              log |-> <<>>, seen |-> NothingSeen, failed |-> "none"]
NoLevel == [status |-> "none", level2 |-> NoLevel2, resources |-> <<>>]
LevelFailed == [status |-> "error", level2 |-> NoLevel2, resources |-> <<>>]

\* a get_skill_level3 that takes the file list from the cached discovery when there is one
Level3DiscoveryCached(cached, fresh) == IF cached.cached THEN cached.skills ELSE fresh

\* discovery = await self.discover(origin): the skills of the index just fetched
Level3Discovery(cached, fresh) == fresh

FreshInit ==
    /\ remote \in [doc : FreshDocuments, index : FreshIndexes]
    /\ cache = NotCached
    /\ call = NotCalled
    /\ tasks = <<>>
    /\ result = NoLevel
    /\ trusted = <<>> /\ svc = <<>>
    /\ RegistryIdle /\ CodecIdle /\ PureIdle /\ SearchIdle /\ FileIdle

FreshRest == UNCHANGED <<regVars, codecVars, trusted, svc, pureVars, searchVars, fileVars>>
Calling(op, pc) == call.op = op /\ call.pc = pc
Returns(value) ==
    /\ call' = [call EXCEPT !.pc = "done"]
    /\ result' = value

\* the origin publishes another document or index
RemoteChanges ==
    \E r \in [doc : FreshDocuments, index : FreshIndexes] :
        /\ r # remote
        /\ call.pc # "idle"
        /\ remote' = r
        /\ UNCHANGED <<cache, call, tasks, result>>
        /\ FreshRest

\* DiscoveryService.discover_from_origin succeeds: the result is cached
CacheDiscovery ==
    /\ call.pc \in {"idle", "done"}
    /\ cache' = [cached |-> TRUE, skills |-> DiscoverSkills(remote.index)]
    /\ call' = [NotCalled EXCEPT !.op = "discover_from_origin", !.pc = "done",
                                 !.log = <<"index">>]
    /\ result' = NoLevel
    /\ UNCHANGED <<remote, tasks>>
    /\ FreshRest

\* get_skill_level2(origin, skill_name) / get_skill_level3(origin, skill_name): both
\* start with fetch_skill_md
CallLevel(op) ==
    /\ call.pc \in {"idle", "done"}
    /\ call' = [NotCalled EXCEPT !.op = op, !.pc = "doc", !.skill_name = <<"a">>,
                                 !.log = <<"document">>]
    /\ tasks' = <<>>
    /\ result' = NoLevel
    /\ UNCHANGED <<remote, cache>>
    /\ FreshRest

CallLevel2 == /\ cache.cached
              /\ CallLevel("level2")
CallLevel3 == /\ cache.cached
              /\ CallLevel("level3")

\* fetch_skill_md raises
Level2FetchFails ==
    /\ call.pc = "doc"
    /\ call' = [call EXCEPT !.pc = "done", !.failed = "document"]
    /\ result' = LevelFailed
    /\ UNCHANGED <<remote, cache, tasks>>
    /\ FreshRest

\* get_skill_level2: the text served is parsed into the SkillLevel2 returned
Level2Returns ==
    /\ Calling("level2", "doc")
    /\ call' = [call EXCEPT !.pc = "done", !.seen.doc = remote.doc,
                            !.seen.served = {"document"}]
    /\ result' = IF Level2FromDocument(remote.doc, call.skill_name).ok
                 THEN [NoLevel EXCEPT !.status = "ok",
                           !.level2 = Level2FromDocument(remote.doc, call.skill_name)]
                 ELSE LevelFailed
    /\ UNCHANGED <<remote, cache, tasks>>
    /\ FreshRest

\* get_skill_level3: the text is served; get_skill_level2 returns and discover is
\* awaited, or SkillLevel2 does not validate and the call raises
Level3DocumentReturns ==
    /\ Calling("level3", "doc")
    /\ IF Level2FromDocument(remote.doc, call.skill_name).ok
       THEN /\ call' = [call EXCEPT !.pc = "index", !.seen.doc = remote.doc,
                                    !.seen.served = {"document"},
                                    !.log = Append(@, "index")]
            /\ result' = [NoLevel EXCEPT
                             !.level2 = Level2FromDocument(remote.doc, call.skill_name)]
       ELSE /\ call' = [call EXCEPT !.pc = "done", !.seen.doc = remote.doc,
                                    !.seen.served = {"document"}, !.failed = "level2"]
            /\ result' = LevelFailed
    /\ UNCHANGED <<remote, cache, tasks>>
    /\ FreshRest

\* get_skill_level3: discover raises
Level3IndexFails ==
    /\ Calling("level3", "index")
    /\ call' = [call EXCEPT !.pc = "done", !.failed = "index"]
    /\ result' = LevelFailed
    /\ UNCHANGED <<remote, cache, tasks>>
    /\ FreshRest

\* get_skill_level3: discover returns, the file list is chosen, fetch_all_resources
\* starts one fetch per file
Level3IndexReturns ==
    /\ Calling("level3", "index")
    /\ call' = [call EXCEPT
                   !.pc = "resources", !.seen.index = remote.index,
                   !.seen.served = @ \cup {"index"},
                   !.files = Level3Files(Level3Discovery(cache, DiscoverSkills(remote.index)),
                                         call.skill_name),
                   !.log = @ \o Level3Files(Level3Discovery(cache,
                                                DiscoverSkills(remote.index)),
                                            call.skill_name)]
    /\ tasks' = [i \in 1..Len(Level3Files(Level3Discovery(cache,
                                              DiscoverSkills(remote.index)),
                                          call.skill_name)) |-> "pending"]
    /\ UNCHANGED <<remote, cache, result>>
    /\ FreshRest

\* one fetch_one of the batch ends, with the content or with None
Level3ResourceEnds ==
    \E i \in 1..Len(tasks), outcome \in {"ok", "fail"} :
        /\ Calling("level3", "resources")
        /\ tasks[i] = "pending"
        /\ tasks' = [tasks EXCEPT ![i] = outcome]
        /\ UNCHANGED <<remote, cache, call, result>>
        /\ FreshRest

\* the batch is gathered and SkillLevel3(skill, resources) is returned
Level3Returns ==
    /\ Calling("level3", "resources")
    /\ \A i \in 1..Len(tasks) : tasks[i] # "pending"
    /\ Returns([result EXCEPT !.status = "ok",
                              !.resources = GatherResult(call.files, tasks).resources])
    /\ UNCHANGED <<remote, cache, tasks>>
    /\ FreshRest

FreshNext ==
    \/ RemoteChanges
    \/ CacheDiscovery
    \/ CallLevel2
    \/ CallLevel3
    \/ Level2FetchFails
    \/ Level2Returns
    \/ Level3DocumentReturns
    \/ Level3IndexFails
    \/ Level3IndexReturns
    \/ Level3ResourceEnds
    \/ Level3Returns

FreshSpec == FreshInit /\ [][FreshNext]_vars

-----------------------------------------------------------------------------
(* Claims about fresh fetches, checked under FreshSpec.                     *)

Level2Done == Calling("level2", "done") /\ result.status = "ok"
Level3Done == Calling("level3", "done") /\ result.status = "ok"
ResourceLog == SubSeq(call.log, 3, Len(call.log))
ListedIn(index, skill_name) == \E i \in 1..Len(index) : index[i].name = skill_name

\* C24: the discovery cache is never consulted in place of a fresh fetch: every
\* get_level2 and get_level3 call issues a new document fetch (and get_level3 new
\* resource fetches), so its result is made of what the origin served during the call,
\* whatever discovery result was cached before.
C24_LevelsFetchFresh ==
    /\ (call.op \in {"level2", "level3"} /\ call.pc # "idle") => call.log[1] = "document"
    /\ (Level2Done \/ Level3Done) =>
        result.level2 = Level2FromDocument(call.seen.doc, call.skill_name)
    /\ Level3Done =>
        /\ call.files = Level3Files(DiscoverSkills(call.seen.index), call.skill_name)
        /\ ResourceLog = call.files
        /\ DOMAIN result.resources \subseteq SeqToSet(call.files)

\* C24 witness: a get_level3 returned files that the cached discovery result does not
\* declare for the skill.
C24_Witness ==
    /\ Level3Done
    /\ cache.cached
    /\ Level3Files(cache.skills, call.skill_name) # call.files
    /\ DOMAIN result.resources = SeqToSet(call.files)

\* C25: get_level3(origin, slug) without files fetches the document, then the index,
\* then the resources: a failed document fetch leaves the index and the resources
\* unfetched and propagates, a failed index fetch leaves the resources unfetched and
\* propagates, resource fetches start only after both succeeded, and a skill the fresh
\* index does not list has only SKILL.md fetched.
C25_Level3FetchOrder ==
    call.op = "level3" =>
        /\ call.log[1] = "document"
        /\ Len(call.log) >= 2 => (call.log[2] = "index" /\ "document" \in call.seen.served)
        /\ Len(call.log) >= 3 => "index" \in call.seen.served
        /\ \A k \in 1..Len(call.log) :
            /\ call.log[k] = "document" => k = 1
            /\ call.log[k] = "index" => k = 2
        /\ call.failed = "document" =>
            (call.log = <<"document">> /\ call.pc = "done" /\ result = LevelFailed)
        /\ call.failed = "index" =>
            (call.log = <<"document", "index">> /\ call.pc = "done" /\ result = LevelFailed)
        /\ ("index" \in call.seen.served /\ ~ListedIn(call.seen.index, call.skill_name)) =>
            ResourceLog = <<SKILL_MD>>
        /\ "index" \in call.seen.served => Len(call.log) >= 3

\* C25 witness: a get_level3 of a skill the fresh index does not list returned after
\* its three fetches.
C25_Witness ==
    /\ Level3Done
    /\ ~ListedIn(call.seen.index, call.skill_name)
    /\ call.log = <<"document", "index", SKILL_MD>>

-----------------------------------------------------------------------------
(* Claims about the discovery cache, checked under SvcSpec.                 *)

\* the step sets the entry of origin to value and leaves every other entry alone
EntryReplaced(origin, value) ==
    /\ DOMAIN cache' = DOMAIN cache \cup {origin}
    /\ cache'[origin] = value
    /\ \A o \in DOMAIN cache \ {origin} : cache'[o] = cache[o]

CacheFollows(origin, outcome) ==
    IF outcome.outcome = "returned" THEN EntryReplaced(origin, outcome.value)
    ELSE cache' = cache

\* C26: a successful discover_from_origin(o) replaces the cache entry of o with exactly
\* the DiscoveryResult it returns, not merged with the previous entry, and changes no
\* other origin's entry; a failed one, alone or inside discover_from_all_trusted, leaves
\* the whole cache unchanged.
C26_CacheRecomputedPerOrigin ==
    [][ /\ svc'.op = "discover_from_origin" => CacheFollows(svc'.origin, svc'.ret)
        /\ (svc.pc = "gather" /\ svc'.pc = "gather") =>
            \A i \in 1..Len(svc.tasks) :
                (svc.tasks[i].outcome = "pending" /\ svc'.tasks[i].outcome # "pending") =>
                    CacheFollows(svc.origins[i], svc'.tasks[i]) ]_vars

\* C26 witness: a discover_from_origin returned for an origin that had a different
\* entry, while the other origin has an entry too.
C26_Witness ==
    /\ svc.op = "discover_from_origin"
    /\ svc.ret.outcome = "returned"
    /\ DOMAIN svc.pre_cache = Origins
    /\ svc.pre_cache[svc.origin].skills # <<>>
    /\ svc.pre_cache[svc.origin] # svc.ret.value
    /\ svc.ret.value.skills # <<>>

-----------------------------------------------------------------------------
(* parse_skill_md on a front-matter of one "k: value" line whose value      *)
(* holds quote characters.                                                  *)

MaxValueLen == 4    \* characters of the value
QuoteChars == {"\"", "'"}

\* values as they stand after the colon, without the white space around them
QuotedValues == {v \in SeqsUpTo(QuoteChars \cup {"v"}, MaxValueLen) : v # <<>>}

KeyValueDocument(value) == Join(<<DELIM, <<"k", ":", " ">> \o value, DELIM>>, "\n")

QuoteInit ==
    /\ doc \in {KeyValueDocument(value) : value \in QuotedValues}
    /\ skillIn = NoCodecSkill
    /\ parsed = NotParsed
    /\ RegistryIdle
    /\ DiscoveryIdle
    /\ MoreIdle

QuoteSpec == QuoteInit /\ [][Parse]_vars

-----------------------------------------------------------------------------
(* Claims about unquoting, checked under QuoteSpec.                         *)

\* the value of the line, and what parse_skill_md made of it
LineValue == SubSeq(doc, Len(DELIM) + 5, Len(doc) - Len(DELIM) - 1)
ParsedValue == parsed.value.metadata[<<"k">>].text
Wrapped(value) ==
    /\ Len(value) >= 2
    /\ value[1] \in QuoteChars
    /\ value[Len(value)] = value[1]

\* C27: the value of a "key: value" front-matter line is unquoted by stripping one layer
\* of matching quote characters: a value wrapped in one pair of identical quote
\* characters loses exactly that pair, and quote characters that belong to the value
\* itself are kept.
C27_OneLayerUnquoted ==
    (parsed # NotParsed /\ Wrapped(LineValue)) =>
        ParsedValue = SubSeq(LineValue, 2, Len(LineValue) - 1)

-----------------------------------------------------------------------------
(* The local Level 3 endpoint: the registry record of skill "a", the        *)
(* directory .well-known/skills/a (disk: path -> content) and the endpoint's *)
(* answer (proj).                                                           *)

LocalPaths == {"x.py", "y.json", "z.md"}
LocalContents == {<<>>, <<"c">>}
LocalSkill == Skill(<<"a">>, "v1", AbsentNum, <<>>, AbsentNum, AbsentNum, 1, 1)
NoLevel3 == [status |-> "none", files |-> <<>>, resources |-> <<>>]

\* list_skill_files: every file under the skill's directory
list_skill_files(directory) == DOMAIN directory

\* the loop of the endpoint: read_skill_file of each listed file, kept "if content"
LocalResources(directory) ==
    [p \in {q \in list_skill_files(directory) : directory[q] # <<>>} |-> directory[p]]

LocalInit ==
    /\ store = <<>>
    /\ disk = <<>>
    /\ proj = NoLevel3
    /\ nextId = 1 /\ clock = 0 /\ last = NoCall /\ calls = 0
    /\ norm = <<>> /\ io = <<>>
    /\ CodecIdle /\ DiscoveryIdle /\ ServiceIdle /\ SearchIdle

LocalRest ==
    UNCHANGED <<nextId, clock, last, calls, norm, io, codecVars, discVars, svcVars,
                searchVars>>

\* POST /skills: the record is registered and its SKILL.md, never empty, is written
RegisterLocal ==
    /\ store' = RegisterData(store, LocalSkill)
    /\ disk' = (SKILL_MD :> ContentOf(SKILL_MD)) @@ disk
    /\ proj' = NoLevel3
    /\ LocalRest

\* SkillRenderer.save_skill_resource(slug, file_path, content)
SaveSkillResource ==
    \E path \in LocalPaths, content \in LocalContents :
        /\ disk' = (path :> content) @@ disk
        /\ proj' = NoLevel3
        /\ UNCHANGED store
        /\ LocalRest

\* RegistryService.add_skill_file(skill_id, file)
DeclareSkillFile ==
    \E path \in LocalPaths :
        /\ store' = AddFileData(store, LocalSkill.id, path)
        /\ proj' = NoLevel3
        /\ UNCHANGED disk
        /\ LocalRest

\* GET /api/v1/skills/a/level3
GetLocalLevel3 ==
    /\ proj' = IF get_skill_by_slug(store, LocalSkill.slug) = NoSkill
               THEN [NoLevel3 EXCEPT !.status = "not_found"]
               ELSE [status |-> "ok",
                     files |-> get_skill_by_slug(store, LocalSkill.slug).files,
                     resources |-> LocalResources(disk)]
    /\ UNCHANGED <<store, disk>>
    /\ LocalRest

LocalNext ==
    \/ RegisterLocal
    \/ SaveSkillResource
    \/ DeclareSkillFile
    \/ GetLocalLevel3

LocalSpec == LocalInit /\ [][LocalNext]_vars

-----------------------------------------------------------------------------
(* Claims about the local Level 3, checked under LocalSpec.                 *)

\* C28: in the local Level3 projection the keys of the resources map are a subset of
\* the skill's declared file paths (skill.files), and the map has an entry for every
\* file that was read, including a file whose content is empty.
C28_LocalResourcesAreDeclared ==
    proj.status = "ok" =>
        /\ DOMAIN proj.resources \subseteq SeqToSet(proj.files)
        /\ \A p \in DOMAIN disk : p \in DOMAIN proj.resources

-----------------------------------------------------------------------------
(* Origin normalization in discover, fetch_skill_md and fetch_skill_resource, *)
(* applied to a pair of origins.                                            *)

MaxSlashes == 2     \* slashes at the end of an origin

HTTP == <<"h", "t", "t", "p", ":", "/", "/">>
HTTPS == <<"h", "t", "t", "p", "s", ":", "/", "/">>
WELL_KNOWN_PATH == <<"/.well-known/skills/">>
INDEX_FILE == <<"index.json">>

\* str.startswith
StartsWith(s, prefix) == Len(s) >= Len(prefix) /\ SubSeq(s, 1, Len(prefix)) = prefix
HasScheme(origin) == StartsWith(origin, HTTP) \/ StartsWith(origin, HTTPS)

\* a normalization that removes one trailing slash only
normalize_origin_one_slash(origin) ==
    IF (IF HasScheme(origin) THEN origin ELSE HTTPS \o origin) = <<>> THEN <<>>
    ELSE IF Last(IF HasScheme(origin) THEN origin ELSE HTTPS \o origin) = "/"
    THEN Front(IF HasScheme(origin) THEN origin ELSE HTTPS \o origin)
    ELSE IF HasScheme(origin) THEN origin ELSE HTTPS \o origin

\* if not origin.startswith(("http://", "https://")): origin = f"https://{origin}"
\* origin = origin.rstrip("/")
normalize_origin(origin) ==
    RStrip(IF HasScheme(origin) THEN origin ELSE HTTPS \o origin, {"/"})

\* what each operation asks for and returns, as far as the origin decides it
DiscoverAt(origin, name) ==
    [url |-> normalize_origin(origin) \o WELL_KNOWN_PATH \o INDEX_FILE,
     origin |-> normalize_origin(origin),
     skill_url |-> normalize_origin(origin) \o WELL_KNOWN_PATH \o name \o <<"/">>]
FetchSkillMdAt(origin, name) ==
    [url |-> normalize_origin(origin) \o WELL_KNOWN_PATH \o name \o <<"/">> \o <<SKILL_MD>>]
FetchSkillResourceAt(origin, name, path) ==
    [url |-> normalize_origin(origin) \o WELL_KNOWN_PATH \o name \o <<"/">> \o <<path>>]

Slashes(n) == [i \in 1..n |-> "/"]
OriginSamples ==
    { scheme \o host \o Slashes(n) :
        scheme \in {<<>>, HTTP, HTTPS, <<"h", "t", "t", "p", ":", "/">>},
        host \in {<<>>, <<"x">>, <<"x", "/", "y">>},
        n \in 0..MaxSlashes }

NotAsked == [url |-> AbsentText]
OriginInit ==
    /\ norm \in [a : OriginSamples, b : OriginSamples, discover : {<<>>},
                 fetch_skill_md : {<<>>}, fetch_skill_resource : {<<>>}]
    /\ proj = <<>>
    /\ RegistryIdle /\ CodecIdle /\ DiscoveryIdle /\ ServiceIdle /\ SearchIdle /\ FileIdle

OriginRest ==
    UNCHANGED <<proj, regVars, codecVars, discVars, svcVars, searchVars, fileVars>>

\* discover(a) and discover(b)
DiscoverBoth ==
    /\ norm.discover = <<>>
    /\ norm' = [norm EXCEPT !.discover = <<DiscoverAt(norm.a, <<"s">>),
                                           DiscoverAt(norm.b, <<"s">>)>>]
    /\ OriginRest

\* fetch_skill_md(a, "s") and fetch_skill_md(b, "s")
FetchSkillMdBoth ==
    /\ norm.fetch_skill_md = <<>>
    /\ norm' = [norm EXCEPT !.fetch_skill_md = <<FetchSkillMdAt(norm.a, <<"s">>),
                                                 FetchSkillMdAt(norm.b, <<"s">>)>>]
    /\ OriginRest

\* fetch_skill_resource(a, "s", "x.py") and fetch_skill_resource(b, "s", "x.py")
FetchSkillResourceBoth ==
    /\ norm.fetch_skill_resource = <<>>
    /\ norm' = [norm EXCEPT !.fetch_skill_resource =
                    <<FetchSkillResourceAt(norm.a, <<"s">>, "x.py"),
                      FetchSkillResourceAt(norm.b, <<"s">>, "x.py")>>]
    /\ OriginRest

OriginNext ==
    \/ DiscoverBoth
    \/ FetchSkillMdBoth
    \/ FetchSkillResourceBoth

OriginSpec == OriginInit /\ [][OriginNext]_vars

-----------------------------------------------------------------------------
(* Claims about origin normalization, checked under OriginSpec.             *)

DropPrefix(s, prefix) == SubSeq(s, Len(prefix) + 1, Len(s))
\* the origin without its scheme and without the slashes at its end
Core(origin) ==
    RStrip(IF StartsWith(origin, HTTPS) THEN DropPrefix(origin, HTTPS)
           ELSE IF StartsWith(origin, HTTP) THEN DropPrefix(origin, HTTP)
           ELSE origin, {"/"})
AllAsked ==
    /\ norm.discover # <<>>
    /\ norm.fetch_skill_md # <<>>
    /\ norm.fetch_skill_resource # <<>>
\* text with some of the slashes at its end removed, none of them left
Stripped(text, whole) ==
    /\ \E n \in 0..Len(whole) : text \o Slashes(n) = whole
    /\ text = <<>> \/ text[Len(text)] # "/"
\* the three operations put the same normalized origin in front of their paths: the
\* origin itself when it has a scheme, https:// and the origin when it has none,
\* without the slashes at the end
SameNormalization(k, origin) ==
    /\ Stripped(norm.discover[k].origin,
                IF HasScheme(origin) THEN origin ELSE HTTPS \o origin)
    /\ norm.discover[k].url = norm.discover[k].origin \o WELL_KNOWN_PATH \o INDEX_FILE
    /\ norm.discover[k].skill_url =
           norm.discover[k].origin \o WELL_KNOWN_PATH \o <<"s", "/">>
    /\ norm.fetch_skill_md[k].url =
           norm.discover[k].origin \o WELL_KNOWN_PATH \o <<"s", "/", SKILL_MD>>
    /\ norm.fetch_skill_resource[k].url =
           norm.discover[k].origin \o WELL_KNOWN_PATH \o <<"s", "/", "x.py">>
SameRequests ==
    /\ norm.discover[1] = norm.discover[2]
    /\ norm.fetch_skill_md[1] = norm.fetch_skill_md[2]
    /\ norm.fetch_skill_resource[1] = norm.fetch_skill_resource[2]

\* C29 as stated: the three operations normalize alike, a missing scheme becomes
\* https://, trailing slashes go, normalizing twice equals normalizing once, and two
\* origins that differ only by a missing scheme or trailing slashes get the same URLs,
\* DiscoveryResult.origin and skill_url.
C29_OriginsNormalizeAlike ==
    AllAsked =>
        /\ SameNormalization(1, norm.a)
        /\ normalize_origin(norm.discover[1].origin) = norm.discover[1].origin
        /\ Core(norm.a) = Core(norm.b) => SameRequests

\* C29, amended: twice equals once for an origin that is more than a scheme and
\* slashes, and the same URLs for two origins that differ only by a missing https://
\* or trailing slashes.
C29_SecureOriginsNormalizeAlike ==
    AllAsked =>
        /\ SameNormalization(1, norm.a)
        /\ Core(norm.a) # <<>> =>
            normalize_origin(norm.discover[1].origin) = norm.discover[1].origin
        /\ (Core(norm.a) = Core(norm.b) /\ ~StartsWith(norm.a, HTTP)
                /\ ~StartsWith(norm.b, HTTP)) => SameRequests

\* C29 witness: the three operations ran on "x" followed by slashes and on https://x.
C29_Witness ==
    /\ AllAsked
    /\ norm.a = <<"x">> \o Slashes(MaxSlashes)
    /\ norm.b = HTTPS \o <<"x">>
    /\ SameRequests

====
